---------------------------- MODULE Spec2Model ----------------------------
(***************************************************************************)
(* A model of the social-simulation engine (core/agent.py, core/society.py, *)
(* core/simulation.py).                                                     *)
(*                                                                          *)
(* Numbers.  The program's floats are modelled as fixed-point integers in   *)
(* units of 1/Unit (Unit = 10000, so 0.6 is 6000 and 0.01 is 100).  A       *)
(* product of two such values is (a*b) \div Unit, rounded down.  The Gini   *)
(* quotient and the equality index are kept as exact fractions [n, d].      *)
(* IEEE rounding is not modelled.                                           *)
(*                                                                          *)
(* Randomness.  The program draws from the process-wide generators of the   *)
(* random module and of numpy.random, and never seeds either of them.  A    *)
(* generator is modelled as a 16-bit linear congruential generator whose    *)
(* initial state is arbitrary (rng.py, rng.np), independent of the          *)
(* configuration.                                                           *)
(***************************************************************************)
EXTENDS Integers, Sequences, FiniteSets, TLC

VARIABLES sim, twin, call

vars == <<sim, twin, call>>

(***************************************************************************)
(* Bounds of the model.                                                     *)
(***************************************************************************)
MaxRounds == 20
MaxPopulation == 6
NumSeeds == 6
MaxCirclePopulation == 50
MaxGiniPopulation == 3

(***************************************************************************)
(* Fixed-point arithmetic.                                                  *)
(***************************************************************************)
Unit == 100 * 100

Mul(a, b) == (a * b) \div Unit

Max(a, b) == IF a >= b THEN a ELSE b

Min(a, b) == IF a <= b THEN a ELSE b

Abs(a) == IF a >= 0 THEN a ELSE 0 - a

Clip(x, lo, hi) == Max(lo, Min(hi, x))

RECURSIVE Pow2(_)
Pow2(k) == IF k <= 0 THEN 1 ELSE 2 * Pow2(k - 1)

RECURSIVE SumSeq(_)
SumSeq(s) ==
    IF s = << >> THEN 0
    ELSE IF Len(s) = 1 THEN s[1]
    ELSE LET half == Len(s) \div 2
         IN SumSeq(SubSeq(s, 1, half)) + SumSeq(SubSeq(s, half + 1, Len(s)))

Mean(s) == (SumSeq(s)) \div Len(s)

(***************************************************************************)
(* The generators (random, numpy.random).                                   *)
(***************************************************************************)
RngModulus == 256 * 256

LcgNext(s) == (s * 25173 + 13849) % RngModulus

\* x * y modulo RngModulus, the product taken in two halves.
MulMod(x, y) ==
    ((x % 256) * y + (((x \div 256) * y) % 256) * 256) % RngModulus

\* LcgNext applied k times is s |-> (a * s + c) % RngModulus for the pair
\* [a, c] computed here by halving k.
RECURSIVE Jump(_)
Jump(k) ==
    IF k <= 0 THEN [a |-> 1, c |-> 0]
    ELSE IF k % 2 = 1
         THEN LET j == Jump(k - 1)
              IN [a |-> MulMod(25173, j.a),
                  c |-> LcgNext(j.c)]
         ELSE LET h == Jump(k \div 2)
              IN [a |-> MulMod(h.a, h.a),
                  c |-> (MulMod(h.a, h.c) + h.c) % RngModulus]

\* The generator's state after k draws from state s.
Skip(s, k) ==
    LET j == Jump(k) IN (MulMod(j.a, s) + j.c) % RngModulus

\* The k-th value drawn from state s, as a number in [0, 1): random.random().
Uniform(s, k) == (Skip(s, k) * Unit) \div RngModulus

\* The k-th value drawn from state s, as an index in 0..n-1: randbelow(n).
Below(s, k, n) == (Skip(s, k) * n) \div RngModulus

\* numpy.random.normal(mean, std): the draw is mapped to one of eight quantiles.
ZTable == <<0 - 22000, 0 - 10000, 0 - 5000, 0 - 1500, 1500, 5000, 10000, 22000>>

Normal(s, k, mean, std) == mean + Mul(std, ZTable[Below(s, k, 8) + 1])

\* numpy.random.uniform(lo, hi)
UniformIn(s, k, lo, hi) == lo + Mul(hi - lo, Uniform(s, k))

(***************************************************************************)
(* Agent (core/agent.py).                                                   *)
(***************************************************************************)
SanctionDuration == 3
IdeologyCooldown == 3

Ideologies == <<"P", "F", "U">>

ideology_values(i) == CASE i = "P" -> 1 [] i = "F" -> 0 - 1 [] i = "U" -> 0

calculate_power(a) ==
    (5000 * a.wealth + 2500 * a.competition_skill + 2500 * a.care_skill) \div Unit

\* The skills as drawn, without the clipping.
initialize_skills_unclipped(gender, config, s, k) ==
    LET care_mean == IF gender = "male" THEN config.male_care_skill_mean
                     ELSE config.female_care_skill_mean
        comp_mean == IF gender = "male" THEN config.male_competition_skill_mean
                     ELSE config.female_competition_skill_mean
        std_dev == config.skill_std_dev
    IN [care_skill |-> Normal(s, k + 1, care_mean, std_dev),
        competition_skill |-> Normal(s, k + 2, comp_mean, std_dev)]

initialize_skills(gender, config, s, k) ==
    LET care_mean == IF gender = "male" THEN config.male_care_skill_mean
                     ELSE config.female_care_skill_mean
        comp_mean == IF gender = "male" THEN config.male_competition_skill_mean
                     ELSE config.female_competition_skill_mean
        std_dev == config.skill_std_dev
    IN [care_skill |->
            Clip(Normal(s, k + 1, care_mean, std_dev),
                 IF gender = "male" THEN 1000 ELSE 2000,
                 IF gender = "male" THEN 9000 ELSE 10000),
        competition_skill |->
            Clip(Normal(s, k + 2, comp_mean, std_dev),
                 IF gender = "female" THEN 1000 ELSE 2000,
                 IF gender = "female" THEN 9000 ELSE 10000)]

initialize_wealth(class_level, s, k) ==
    LET p == CASE class_level = "low" -> <<2000, 1000, 500, 3500>>
               [] class_level = "middle" -> <<5000, 1500, 2000, 8000>>
               [] OTHER -> <<8000, 1000, 6000, 10000>>
    IN Clip(Normal(s, k, p[1], p[2]), p[3], p[4])

initialize_ideology(s, k) == Ideologies[Below(s, k, 3) + 1]

\* Agent.__init__: four draws from numpy.random, taken after the first k.
NewAgent(id, gender, class_level, config, s, k) ==
    LET skills == initialize_skills(gender, config, s, k)
        wealth == initialize_wealth(class_level, s, k + 3)
        ideology == initialize_ideology(s, k + 4)
        base == [id |-> id, gender |-> gender, class_level |-> class_level,
                 care_skill |-> skills.care_skill,
                 competition_skill |-> skills.competition_skill,
                 wealth |-> wealth]
        power == calculate_power(base)
    IN [id |-> id, gender |-> gender, class_level |-> class_level,
        care_skill |-> skills.care_skill,
        competition_skill |-> skills.competition_skill,
        wealth |-> wealth, power |-> power,
        ideology |-> ideology, ideology_value |-> ideology_values(ideology),
        sanction_effects |-> << >>, last_ideology_change |-> 0,
        wealth_history |-> <<wealth>>, power_history |-> <<power>>,
        ideology_history |-> <<ideology>>]

update_wealth(a, new_wealth) ==
    LET w == Max(100, new_wealth)
    IN [a EXCEPT !.wealth = w, !.wealth_history = Append(@, w)]

update_power(a) ==
    LET p == calculate_power(a)
    IN [a EXCEPT !.power = p, !.power_history = Append(@, p)]

\* Variant: the cooldown test is strict (more than three rounds).
change_ideology_strict(a, new_ideology, current_round) ==
    IF current_round - a.last_ideology_change > IdeologyCooldown
       /\ new_ideology \in {"P", "F", "U"}
    THEN [agent |-> [a EXCEPT !.ideology = new_ideology,
                              !.ideology_value = ideology_values(new_ideology),
                              !.last_ideology_change = current_round,
                              !.ideology_history = Append(@, new_ideology)],
          ret |-> TRUE, raised |-> FALSE]
    ELSE [agent |-> a, ret |-> FALSE, raised |-> FALSE]

\* Variant: a change is applied but the round of the change is not recorded.
change_ideology_unstamped(a, new_ideology, current_round) ==
    IF current_round - a.last_ideology_change >= IdeologyCooldown
       /\ new_ideology \in {"P", "F", "U"}
    THEN [agent |-> [a EXCEPT !.ideology = new_ideology,
                              !.ideology_value = ideology_values(new_ideology),
                              !.ideology_history = Append(@, new_ideology)],
          ret |-> TRUE, raised |-> FALSE]
    ELSE [agent |-> a, ret |-> FALSE, raised |-> FALSE]

\* change_ideology: [agent, ret, raised].  An ideology code outside the
\* mapping raises KeyError at the lookup, after self.ideology was assigned.
change_ideology(a, new_ideology, current_round) ==
    IF current_round - a.last_ideology_change >= IdeologyCooldown
    THEN IF new_ideology \in {"P", "F", "U"}
         THEN [agent |-> [a EXCEPT !.ideology = new_ideology,
                                   !.ideology_value = ideology_values(new_ideology),
                                   !.last_ideology_change = current_round,
                                   !.ideology_history = Append(@, new_ideology)],
               ret |-> TRUE, raised |-> FALSE]
         ELSE [agent |-> [a EXCEPT !.ideology = new_ideology],
               ret |-> FALSE, raised |-> TRUE]
    ELSE [agent |-> a, ret |-> FALSE, raised |-> FALSE]

\* An effect carries current_* only once update_sanction_effects has set
\* them (has_current); get_total_sanction_effects reads an absent one as 0.
add_sanction_effect(a, intensity, current_round) ==
    LET effect == [intensity |-> intensity,
                   start_round |-> current_round,
                   duration |-> SanctionDuration,
                   power_loss |-> (intensity * 8) \div 100,
                   wealth_loss |-> (intensity * 3) \div 100,
                   has_current |-> FALSE,
                   current_intensity |-> 0,
                   current_power_loss |-> 0,
                   current_wealth_loss |-> 0]
    IN [a EXCEPT !.sanction_effects = Append(@, effect)]

\* 0.5 ** rounds_passed applied to v (rounds_passed may be negative).
Decay(v, rounds_passed) ==
    IF rounds_passed >= 0 THEN v \div Pow2(rounds_passed)
    ELSE v * Pow2(0 - rounds_passed)

decay_effect(effect, current_round) ==
    LET rounds_passed == current_round - effect.start_round
    IN [effect EXCEPT !.has_current = TRUE,
                      !.current_intensity = Decay(effect.intensity, rounds_passed),
                      !.current_power_loss = Decay(effect.power_loss, rounds_passed),
                      !.current_wealth_loss = Decay(effect.wealth_loss, rounds_passed)]

\* Variant: an effect is kept one round longer.
effect_active_inclusive(effect, current_round) ==
    current_round - effect.start_round <= effect.duration

effect_active(effect, current_round) ==
    current_round - effect.start_round < effect.duration

\* Variant: expired effects are decayed like the others and kept.
update_sanction_effects_unpruned(a, current_round) ==
    [a EXCEPT !.sanction_effects =
        [i \in 1..Len(@) |-> decay_effect(@[i], current_round)]]

update_sanction_effects(a, current_round) ==
    LET kept == SelectSeq(a.sanction_effects,
                          LAMBDA e : effect_active(e, current_round))
    IN [a EXCEPT !.sanction_effects =
            [i \in 1..Len(kept) |-> decay_effect(kept[i], current_round)]]

get_total_sanction_effects(a) ==
    [power_loss |-> SumSeq([i \in 1..Len(a.sanction_effects) |->
                               a.sanction_effects[i].current_power_loss]),
     wealth_loss |-> SumSeq([i \in 1..Len(a.sanction_effects) |->
                               a.sanction_effects[i].current_wealth_loss])]

learn_from_successful_agent(a, successful_agent, learning_rate) ==
    [a EXCEPT
        !.care_skill =
            Clip(@ + Mul(learning_rate, successful_agent.care_skill - @), 0, Unit),
        !.competition_skill =
            Clip(@ + Mul(learning_rate, successful_agent.competition_skill - @),
                 0, Unit)]

\* Variant: the downward conditions are tested before the upward ones.
check_class_mobility_downward_first(a, class_averages) ==
    LET current_class == a.class_level
    IN IF current_class = "high" /\ a.wealth * 10 < class_averages.high * 6
       THEN "middle"
       ELSE IF current_class = "middle"
               /\ a.wealth * 10 < class_averages.middle * 6
       THEN "low"
       ELSE IF current_class = "low"
               /\ a.wealth * 10 > class_averages.middle * 15
       THEN "middle"
       ELSE IF current_class = "middle"
               /\ a.wealth * 10 > class_averages.high * 15
       THEN "high"
       ELSE current_class

check_class_mobility(a, class_averages) ==
    LET current_class == a.class_level
    IN IF current_class = "low" /\ a.wealth * 10 > class_averages.middle * 15
       THEN "middle"
       ELSE IF current_class = "middle"
               /\ a.wealth * 10 > class_averages.high * 15
       THEN "high"
       ELSE IF current_class = "high"
               /\ a.wealth * 10 < class_averages.high * 6
       THEN "middle"
       ELSE IF current_class = "middle"
               /\ a.wealth * 10 < class_averages.middle * 6
       THEN "low"
       ELSE current_class

agent_to_dict(a) ==
    [id |-> a.id, gender |-> a.gender, class_level |-> a.class_level,
     wealth |-> a.wealth, power |-> a.power, care_skill |-> a.care_skill,
     competition_skill |-> a.competition_skill, ideology |-> a.ideology,
     ideology_value |-> a.ideology_value,
     sanction_effects_count |-> Len(a.sanction_effects),
     last_ideology_change |-> a.last_ideology_change]

(***************************************************************************)
(* SocietyState (core/society.py).  The society's fields live in sim       *)
(* beside the simulation's own: sim.agents is the one member list both      *)
(* objects refer to, and core_decision_circle holds positions in it.        *)
(***************************************************************************)
PolicyNames == <<"competition_reward", "care_reward", "tax_redistribution",
                 "attribution_bias", "social_sanction">>

policy_bounds(policy_name) ==
    CASE policy_name = "competition_reward" -> <<5000, 20000>>
      [] policy_name = "care_reward" -> <<5000, 20000>>
      [] policy_name = "tax_redistribution" -> <<0, 8000>>
      [] policy_name = "attribution_bias" -> <<0, 10000>>
      [] policy_name = "social_sanction" -> <<0, 10000>>

Field(agents, f(_)) == [i \in 1..Len(agents) |-> f(agents[i])]

MeanOf(agents, f(_)) == IF agents = << >> THEN 0 ELSE Mean(Field(agents, f))

\* _update_basic_stats: with no agents the three averages keep their values.
update_basic_stats(s) ==
    IF s.agents = << >> THEN s
    ELSE [s EXCEPT
            !.average_wealth = Mean(Field(s.agents, LAMBDA a : a.wealth)),
            !.average_power = Mean(Field(s.agents, LAMBDA a : a.power)),
            !.average_ideology =
                (SumSeq(Field(s.agents, LAMBDA a : a.ideology_value)) * Unit)
                    \div Len(s.agents)]

\* The wealth_std and power_std entries (numpy.std) are not modelled; no
\* operation of the engine reads them.
gender_group(agents, gender) ==
    LET g == SelectSeq(agents, LAMBDA a : a.gender = gender)
    IN [count |-> Len(g),
        avg_wealth |-> MeanOf(g, LAMBDA a : a.wealth),
        avg_power |-> MeanOf(g, LAMBDA a : a.power),
        avg_care_skill |-> MeanOf(g, LAMBDA a : a.care_skill),
        avg_competition_skill |-> MeanOf(g, LAMBDA a : a.competition_skill)]

gender_stats_of(agents) ==
    LET m == gender_group(agents, "male")
        f == gender_group(agents, "female")
    IN [male |-> m, female |-> f,
        power_gap |-> m.avg_power - f.avg_power,
        wealth_gap |-> m.avg_wealth - f.avg_wealth]

ideology_stats_of(agents) ==
    LET total == Len(agents)
        cnt(i) == Len(SelectSeq(agents, LAMBDA a : a.ideology = i))
        entry(i) == [count |-> cnt(i),
                     percentage |-> IF total > 0 THEN (cnt(i) * Unit) \div total
                                    ELSE 0]
    IN [P |-> entry("P"), F |-> entry("F"), U |-> entry("U")]

class_group(agents, class_level) ==
    LET g == SelectSeq(agents, LAMBDA a : a.class_level = class_level)
    IN IF g # << >>
       THEN [count |-> Len(g),
             avg_wealth |-> MeanOf(g, LAMBDA a : a.wealth),
             avg_power |-> MeanOf(g, LAMBDA a : a.power),
             male_count |-> Len(SelectSeq(g, LAMBDA a : a.gender = "male")),
             female_count |-> Len(SelectSeq(g, LAMBDA a : a.gender = "female"))]
       ELSE [count |-> 0, avg_wealth |-> 0, avg_power |-> 0,
             male_count |-> 0, female_count |-> 0]

class_stats_of(agents) ==
    [low |-> class_group(agents, "low"),
     middle |-> class_group(agents, "middle"),
     high |-> class_group(agents, "high")]

\* Sum over i, j of |w_i - w_j|.
TotalDiff(wealths, i) ==
    SumSeq([k \in 1..(Len(wealths) - i + 1) |->
               SumSeq([j \in 1..Len(wealths) |->
                          Abs(wealths[i + k - 1] - wealths[j])])])

\* Variant: the differences are summed with their signs, so they cancel.
calculate_gini_coefficient_signed(wealths) ==
    LET n == Len(wealths)
        total == SumSeq(wealths)
        total_diff == SumSeq([i \in 1..n |->
                         SumSeq([j \in 1..n |-> wealths[i] - wealths[j]])])
    IN IF n < 2 \/ total = 0 THEN [n |-> 0, d |-> 1]
       ELSE [n |-> total_diff, d |-> 2 * n * total]

\* The coefficient with a zero mean read as complete inequality.
calculate_gini_coefficient_zero_mean_one(wealths) ==
    LET n == Len(wealths)
        total == SumSeq(wealths)
        total_diff == TotalDiff(wealths, 1)
        den == 2 * n * total
    IN IF n < 2 THEN [n |-> 0, d |-> 1]
       ELSE IF total = 0 THEN [n |-> 1, d |-> 1]
       ELSE IF den < 0 THEN [n |-> 0 - total_diff, d |-> 0 - den]
       ELSE IF total_diff > den THEN [n |-> 1, d |-> 1]
       ELSE [n |-> total_diff, d |-> den]

\* The Gini coefficient as the exact fraction n/d, d > 0:
\* total_diff / (2 * n * n * mean) with n * mean the sum of the wealths.
calculate_gini_coefficient(wealths) ==
    LET n == Len(wealths)
        total == SumSeq(wealths)
        total_diff == TotalDiff(wealths, 1)
        den == 2 * n * total
    IN IF n < 2 THEN [n |-> 0, d |-> 1]
       ELSE IF total = 0 THEN [n |-> 0, d |-> 1]
       ELSE IF den < 0 THEN [n |-> 0 - total_diff, d |-> 0 - den]
       ELSE IF total_diff > den THEN [n |-> 1, d |-> 1]
       ELSE [n |-> total_diff, d |-> den]

\* social_equality = max(0, min(1, 1 - gini)), an exact fraction n/d.
calculate_social_equality(agents) ==
    IF agents = << >> THEN [n |-> 0, d |-> 1]
    ELSE LET gini == calculate_gini_coefficient(Field(agents, LAMBDA a : a.wealth))
         IN [n |-> Clip(gini.d - gini.n, 0, gini.d), d |-> gini.d]

\* The equality index as a fixed-point number, where the engine computes with it.
\* (The fraction is first scaled down so that the product stays in range.)
EqualityValue(e) ==
    LET k == 1 + e.d \div 200000
    IN ((e.n \div k) * Unit) \div Max(1, e.d \div k)

update_statistics(s) ==
    LET b == update_basic_stats(s)
    IN [b EXCEPT !.gender_stats = gender_stats_of(s.agents),
                 !.ideology_stats = ideology_stats_of(s.agents),
                 !.class_stats = class_stats_of(s.agents),
                 !.social_equality = calculate_social_equality(s.agents)]

\* Positions 1..n ordered by power, highest first; sorted() is stable, so
\* equal powers keep their list order.
SortedByPower(agents, left) ==
    LET ahead == [i \in left |->
                    Cardinality({j \in left :
                        \/ agents[j].power > agents[i].power
                        \/ agents[j].power = agents[i].power /\ j < i})]
    IN [k \in 1..Cardinality(left) |-> CHOOSE i \in left : ahead[i] = k - 1]

\* Variant: the product is rounded up instead of truncated.
circle_size_ceil(n) == Max(1, (n * 5 + 99) \div 100)

circle_size(n) == Max(1, (n * 5) \div 100)

update_core_decision_circle(s) ==
    [s EXCEPT !.core_decision_circle =
        SubSeq(SortedByPower(s.agents, 1..Len(s.agents)), 1,
               Min(Len(s.agents), circle_size(Len(s.agents))))]

get_policy_preference(s, agent, policy_name) ==
    CASE policy_name = "competition_reward" ->
            IF agent.ideology = "P" \/ agent.competition_skill > 6000 THEN 1
            ELSE IF agent.ideology = "F" \/ agent.care_skill > 6000 THEN 0 - 1
            ELSE 0
      [] policy_name = "care_reward" ->
            IF agent.ideology = "F" \/ agent.care_skill > 6000 THEN 1
            ELSE IF agent.ideology = "P" \/ agent.competition_skill > 6000 THEN 0 - 1
            ELSE 0
      [] policy_name = "tax_redistribution" ->
            IF agent.ideology = "F" \/ agent.wealth < s.average_wealth THEN 1
            ELSE IF agent.ideology = "P"
                    \/ agent.wealth * 10 > s.average_wealth * 15 THEN 0 - 1
            ELSE 0
      [] policy_name = "attribution_bias" ->
            IF agent.ideology = "P"
               \/ (agent.gender = "male" /\ agent.power > s.average_power) THEN 1
            ELSE IF agent.ideology = "F" \/ agent.gender = "female" THEN 0 - 1
            ELSE 0
      [] policy_name = "social_sanction" ->
            IF Abs(agent.ideology_value * Unit - s.average_ideology) < 2000 THEN 1
            ELSE 0 - 1
      [] OTHER -> 0

\* The direction the circle's majority takes: 1, -1 or 0.
vote_direction(s, policy_name) ==
    LET votes == [i \in 1..Len(s.core_decision_circle) |->
                    get_policy_preference(s, s.agents[s.core_decision_circle[i]],
                                          policy_name)]
        votes_increase == Len(SelectSeq(votes, LAMBDA v : v > 0))
        votes_decrease == Len(SelectSeq(votes, LAMBDA v : v < 0))
        votes_maintain == Len(SelectSeq(votes, LAMBDA v : v = 0))
    IN IF votes_increase > votes_decrease /\ votes_increase > votes_maintain THEN 1
       ELSE IF votes_decrease > votes_increase /\ votes_decrease > votes_maintain
       THEN 0 - 1
       ELSE 0

\* The boundary handling at the end of vote_on_policy.
soften(policy_name, new_value) ==
    LET min_val == policy_bounds(policy_name)[1]
        max_val == policy_bounds(policy_name)[2]
        v == IF new_value > max_val THEN max_val + (new_value - max_val) \div 10
             ELSE IF new_value < min_val THEN min_val + (min_val - new_value) \div 10
             ELSE new_value
    IN Max(min_val, Min(max_val, v))

\* vote_on_policy: [value, draws, raised], draws the number of values it
\* took from numpy.random (one for a move, none otherwise).  A name that is
\* not a lever raises KeyError where policy_levers is read, with an empty
\* circle and after the votes are counted alike, before anything is drawn.
vote_on_policy(s, policy_name) ==
    IF policy_name \notin DOMAIN s.policy_levers
    THEN [value |-> 0, draws |-> 0, raised |-> TRUE]
    ELSE IF s.core_decision_circle = << >>
    THEN [value |-> s.policy_levers[policy_name], draws |-> 0, raised |-> FALSE]
    ELSE LET current_value == s.policy_levers[policy_name]
             dir == vote_direction(s, policy_name)
             adjustment == Min(2000, UniformIn(s.rng.np, 1, 500, 2000))
             new_value == IF dir > 0 THEN Mul(current_value, Unit + adjustment)
                          ELSE IF dir < 0 THEN Mul(current_value, Unit - adjustment)
                          ELSE current_value
         IN [value |-> soften(policy_name, new_value),
             draws |-> IF dir = 0 THEN 0 ELSE 1, raised |-> FALSE]

\* Variant: the snapshots hold the event log itself instead of a copy of it.
add_event_shared_log(s, event) ==
    LET log == Append(s.event_history, event @@ [round |-> s.current_round])
    IN [s EXCEPT !.event_history = log,
                 !.rounds = [k \in 1..Len(@) |-> [@[k] EXCEPT !.event_history = log]]]

add_event(s, event) ==
    [s EXCEPT !.event_history =
        Append(@, event @@ [round |-> s.current_round])]

circle_composition(s) ==
    IF s.core_decision_circle = << >>
    THEN [gender |-> << >>, ideology |-> << >>, class |-> << >>]
    ELSE LET members == [i \in 1..Len(s.core_decision_circle) |->
                            s.agents[s.core_decision_circle[i]]]
             total == Len(members)
             part(count) == [count |-> count, percentage |-> (count * Unit) \div total]
             male_count == Len(SelectSeq(members, LAMBDA a : a.gender = "male"))
             by_ideology(i) == Len(SelectSeq(members, LAMBDA a : a.ideology = i))
             by_class(c) == Len(SelectSeq(members, LAMBDA a : a.class_level = c))
         IN [gender |-> [male |-> part(male_count),
                         female |-> part(total - male_count)],
             ideology |-> [P |-> part(by_ideology("P")), F |-> part(by_ideology("F")),
                           U |-> part(by_ideology("U"))],
             class |-> [low |-> part(by_class("low")),
                        middle |-> part(by_class("middle")),
                        high |-> part(by_class("high"))]]

society_to_dict(s) ==
    [current_round |-> s.current_round,
     social_equality |-> s.social_equality,
     average_wealth |-> s.average_wealth,
     average_power |-> s.average_power,
     average_ideology |-> s.average_ideology,
     policy_levers |-> s.policy_levers,
     gender_stats |-> s.gender_stats,
     ideology_stats |-> s.ideology_stats,
     class_stats |-> s.class_stats,
     core_circle_composition |-> circle_composition(s),
     core_decision_circle |-> [i \in 1..Len(s.core_decision_circle) |->
                                 agent_to_dict(s.agents[s.core_decision_circle[i]])],
     event_history |-> s.event_history,
     agents |-> [i \in 1..Len(s.agents) |-> agent_to_dict(s.agents[i])]]

(***************************************************************************)
(* SocialSimulation (core/simulation.py).                                   *)
(***************************************************************************)
PeriodicInterval == 10

Repeat(x, n) == [i \in 1..n |-> x]

\* random.shuffle: for i from the last position down to the second, swap
\* x[i] with x[randbelow(i + 1)]; k draws have been taken before.
\* The positions the swaps of steps hi, hi - 1, ..., lo bring to each place
\* of a list of n items: step i swaps places i and j, j drawn below i as draw
\* number base - i.  The steps are composed by halves.
RECURSIVE ShufflePositions(_, _, _, _, _)
ShufflePositions(n, hi, lo, s, base) ==
    IF hi < lo THEN [m \in 1..n |-> m]
    ELSE IF hi = lo
    THEN LET j == Below(s, base - hi, hi) + 1
         IN [m \in 1..n |-> IF m = hi THEN j ELSE IF m = j THEN hi ELSE m]
    ELSE LET mid == (hi + lo) \div 2
             first == ShufflePositions(n, hi, mid + 1, s, base)
             then == ShufflePositions(n, mid, lo, s, base)
         IN [m \in 1..n |-> first[then[m]]]

Shuffle(x, i, s, k) ==
    LET from == ShufflePositions(Len(x), i, 2, s, k + i + 1)
    IN [m \in 1..Len(x) |-> x[from[m]]]

\* The high tier sized by its own ratio instead of by the remainder.
gender_class_combinations_floor_high(total_population) ==
    LET low_count == (total_population * 6) \div 10
        middle_count == (total_population * 3) \div 10
        high_count == total_population \div 10
        of(class_level, class_count) ==
            LET class_male == class_count \div 2
            IN Repeat(<<"male", class_level>>, class_male)
               \o Repeat(<<"female", class_level>>, class_count - class_male)
    IN of("low", low_count) \o of("middle", middle_count) \o of("high", high_count)

gender_class_combinations(total_population) ==
    LET low_count == (total_population * 6) \div 10
        middle_count == (total_population * 3) \div 10
        high_count == total_population - low_count - middle_count
        of(class_level, class_count) ==
            LET class_male == class_count \div 2
            IN Repeat(<<"male", class_level>>, class_male)
               \o Repeat(<<"female", class_level>>, class_count - class_male)
    IN of("low", low_count) \o of("middle", middle_count) \o of("high", high_count)

\* SocietyState.__init__ for a member list: levers from the configuration,
\* the circle built, the statistics computed.  (rounds, rng and pc are the
\* simulation's.)
society_init(config, agents, rng) ==
    LET s0 == [config |-> config,
               agents |-> agents,
               current_round |-> 0,
               policy_levers |-> [name \in {PolicyNames[i] : i \in 1..5} |->
                                     config[name]],
               core_decision_circle |-> << >>,
               event_history |-> << >>,
               social_equality |-> [n |-> 0, d |-> 1],
               average_wealth |-> 0, average_power |-> 0, average_ideology |-> 0,
               gender_stats |-> << >>, ideology_stats |-> << >>,
               class_stats |-> << >>,
               rounds |-> << >>,
               rng |-> rng,
               pc |-> "loop"]
    IN update_statistics(update_core_decision_circle(s0))

\* SocialSimulation.__init__: the members are created in shuffled order,
\* the society is built and the initial snapshot recorded.
initialize_society(config, rng) ==
    LET combos == gender_class_combinations(config.total_population)
        n == Len(combos)
        shuffled == Shuffle(combos, n, rng.py, 0)
        agents == [i \in 1..n |->
                     NewAgent(i, shuffled[i][1], shuffled[i][2], config,
                              rng.np, 4 * (i - 1))]
        s1 == society_init(config, agents,
                           [py |-> Skip(rng.py, Max(0, n - 1)),
                            np |-> Skip(rng.np, 4 * n)])
    IN [s1 EXCEPT !.rounds = <<society_to_dict(s1)>>]

\* The loop running one round past max_rounds.
begin_round_inclusive(s) ==
    IF s.current_round <= s.config.max_rounds
    THEN [s EXCEPT !.current_round = @ + 1, !.pc = "voting"]
    ELSE [s EXCEPT !.pc = "done"]

\* run_simulation: the head of the loop over round_num.
begin_round(s) ==
    IF s.current_round < s.config.max_rounds
    THEN [s EXCEPT !.current_round = @ + 1, !.pc = "voting"]
    ELSE [s EXCEPT !.pc = "done"]

\* The selection drawn with replacement: the second pick may repeat the first.
selected_policies_with_replacement(py) ==
    LET num_issues == 1 + Below(py, 1, 2)
        j1 == Below(py, 2, 5) + 1
        j2 == Below(py, 3, 4) + 1
    IN IF num_issues = 1 THEN <<PolicyNames[j1]>>
       ELSE <<PolicyNames[j1], PolicyNames[j2]>>

\* random.sample(policy_names, num_issues) for five names and one or two
\* picks: pick pool[j], then move the pool's last name into place j.
selected_policies(py) ==
    LET num_issues == 1 + Below(py, 1, 2)
        j1 == Below(py, 2, 5) + 1
        pool == [PolicyNames EXCEPT ![j1] = PolicyNames[5]]
        j2 == Below(py, 3, 4) + 1
    IN IF num_issues = 1 THEN <<PolicyNames[j1]>>
       ELSE <<PolicyNames[j1], pool[j2]>>

\* Variant: the voted value is written whatever the size of the change.
vote_and_record_always_written(s, policy_name) ==
    LET v == vote_on_policy(s, policy_name)
        new_value == v.value
        old_value == s.policy_levers[policy_name]
        drawn == [s EXCEPT !.rng.np = Skip(@, v.draws)]
    IN IF new_value # old_value
       THEN add_event([drawn EXCEPT !.policy_levers[policy_name] = new_value],
                      [type |-> "policy_change", policy |-> policy_name,
                       old_value |-> old_value, new_value |-> new_value,
                       change |-> new_value - old_value])
       ELSE drawn

vote_and_record(s, policy_name) ==
    LET v == vote_on_policy(s, policy_name)
        new_value == v.value
        old_value == s.policy_levers[policy_name]
        drawn == [s EXCEPT !.rng.np = Skip(@, v.draws)]
    IN IF Abs(new_value - old_value) > 100
       THEN add_event([drawn EXCEPT !.policy_levers[policy_name] = new_value],
                      [type |-> "policy_change", policy |-> policy_name,
                       old_value |-> old_value, new_value |-> new_value,
                       change |-> new_value - old_value])
       ELSE drawn

RECURSIVE vote_all(_, _)
vote_all(s, names) ==
    IF names = << >> THEN s
    ELSE vote_all(vote_and_record(s, Head(names)), Tail(names))

core_circle_voting(s) ==
    LET selected == selected_policies(s.rng.py)
        voted == vote_all(s, selected)
    IN [voted EXCEPT !.rng.py = Skip(@, 1 + Len(selected)), !.pc = "event"]

trigger_event(s) ==
    LET social_event_prob == 4000 + Mul(2000, EqualityValue(s.social_equality))
    IN IF Uniform(s.rng.py, 1) < social_event_prob
       THEN [type |-> "social", name |-> "social cooperation"]
       ELSE [type |-> "economic", name |-> "economic competition"]

execute_social_event(s, event) ==
    LET total_care_skill == SumSeq(Field(s.agents, LAMBDA a : a.care_skill))
        success_threshold ==
            (Len(s.agents) * (Unit + EqualityValue(s.social_equality))) \div 2
        care_reward == s.policy_levers.care_reward
        reward(a) ==
            IF a.care_skill > 6000
            THEN [a EXCEPT !.power = @ + Mul(Mul(500, care_reward), a.care_skill),
                           !.wealth = @ + Mul(Mul(300, care_reward), a.care_skill)]
            ELSE a
        success == total_care_skill >= success_threshold
    IN [state |-> IF success THEN [s EXCEPT !.agents = Field(s.agents, reward)]
                  ELSE s,
        event |-> event @@ [success |-> success,
                            total_care_skill |-> total_care_skill,
                            threshold |-> success_threshold],
        draws |-> 0]

\* Member i takes the (k+i)-th draw of the round from random.
execute_economic_event(s, event, k) ==
    LET competition_reward == s.policy_levers.competition_reward
        wins(i) == Uniform(s.rng.py, k + i) < Mul(s.agents[i].competition_skill, 8000)
        reward(i) ==
            LET a == s.agents[i]
            IN IF wins(i)
               THEN [a EXCEPT
                       !.power = @ + Mul(Mul(400, competition_reward),
                                         a.competition_skill),
                       !.wealth = @ + Mul(Mul(600, competition_reward),
                                          a.competition_skill)]
               ELSE a
        n == Len(s.agents)
    IN [state |-> [s EXCEPT !.agents = [i \in 1..n |-> reward(i)]],
        event |-> event @@ [success |-> TRUE,
                            winners_count |-> Cardinality({i \in 1..n : wins(i)}),
                            total_participants |-> n],
        draws |-> n]

\* _trigger_event, then _execute_event with its add_event.
\* Variant: the event is resolved but not logged.
event_step_unlogged(s) ==
    LET event == trigger_event(s)
        r == IF event.type = "social" THEN execute_social_event(s, event)
             ELSE execute_economic_event(s, event, 1)
    IN [r.state EXCEPT !.rng.py = Skip(@, 1 + r.draws), !.pc = "bias"]

event_step(s) ==
    LET event == trigger_event(s)
        r == IF event.type = "social" THEN execute_social_event(s, event)
             ELSE execute_economic_event(s, event, 1)
        logged == add_event(r.state, r.event)
    IN [logged EXCEPT !.rng.py = Skip(@, 1 + r.draws), !.pc = "bias"]

\* Variant: the round goes from the attribution bias straight to the wealth
\* and power update.
apply_attribution_bias_then_update(s) ==
    [s EXCEPT !.pc = "update"]

apply_attribution_bias(s) ==
    LET attribution_bias == s.policy_levers.attribution_bias
        biased(a) ==
            LET relative_power_advantage ==
                    ((a.power - s.average_power) * Unit)
                        \div Max(10, s.average_power)
                by_power == Unit + relative_power_advantage \div 10
                bias_factor ==
                    IF a.gender = "male"
                    THEN Mul(Unit + Mul(2000, attribution_bias), by_power)
                    ELSE Mul(Unit - Mul(3000, attribution_bias), by_power)
            IN [a EXCEPT !.power = Max(0, Mul(a.power, bias_factor))]
    IN [s EXCEPT !.agents = Field(s.agents, biased), !.pc = "tax"]

tax_amount(s, a) ==
    LET tax_rate == s.policy_levers.tax_redistribution
    IN IF a.wealth * 2 > s.average_wealth
       THEN LET tax_multiplier ==
                    Max(0, (a.wealth * Unit) \div s.average_wealth - 5000)
            IN Mul(Mul(a.wealth, tax_rate), tax_multiplier)
       ELSE 0

\* Variant: the shares go only to the members that paid no tax.
execute_tax_redistribution_untaxed_only(s) ==
    LET tax_rate == s.policy_levers.tax_redistribution
        n == Len(s.agents)
        total_tax == SumSeq([i \in 1..n |-> tax_amount(s, s.agents[i])])
        redistribution_per_person == IF total_tax > 0 THEN total_tax \div n ELSE 0
        settle(a) ==
            [a EXCEPT !.wealth = IF tax_amount(s, a) > 0 THEN @ - tax_amount(s, a)
                                 ELSE @ + redistribution_per_person]
    IN IF tax_rate <= 0 THEN [s EXCEPT !.pc = "update"]
       ELSE [s EXCEPT !.agents = Field(s.agents, settle), !.pc = "update"]

execute_tax_redistribution(s) ==
    LET tax_rate == s.policy_levers.tax_redistribution
        n == Len(s.agents)
        total_tax == SumSeq([i \in 1..n |-> tax_amount(s, s.agents[i])])
        redistribution_per_person == IF total_tax > 0 THEN total_tax \div n ELSE 0
        settle(a) ==
            [a EXCEPT !.wealth = @ - tax_amount(s, a) + redistribution_per_person]
    IN IF tax_rate <= 0 THEN [s EXCEPT !.pc = "update"]
       ELSE [s EXCEPT !.agents = Field(s.agents, settle), !.pc = "update"]

\* Variant: the 2% decay is decided on the wealth before growth.
grown_wealth_old_test(a, base_growth_rate, wealth_loss) ==
    LET skill_bonus == (2 * (a.competition_skill + a.care_skill)) \div 200
        growth_rate == base_growth_rate + skill_bonus
        new_wealth == Mul(a.wealth, Unit + growth_rate) - wealth_loss
    IN IF a.wealth > 9000 THEN (new_wealth * 98) \div 100 ELSE new_wealth

grown_wealth(a, base_growth_rate, wealth_loss) ==
    LET skill_bonus == (2 * (a.competition_skill + a.care_skill)) \div 200
        growth_rate == base_growth_rate + skill_bonus
        new_wealth == Mul(a.wealth, Unit + growth_rate) - wealth_loss
    IN IF new_wealth > 9000 THEN (new_wealth * 98) \div 100 ELSE new_wealth

\* Variant: the power is not recomputed from the new wealth and the skills.
update_agent_wealth_power_power_kept(a, base_growth_rate, current_round) ==
    LET sanction_effects == get_total_sanction_effects(a)
        a1 == update_wealth(a, grown_wealth(a, base_growth_rate,
                                            sanction_effects.wealth_loss))
        a3 == [a1 EXCEPT !.power = Max(0, @ - sanction_effects.power_loss)]
    IN update_sanction_effects(a3, current_round)

update_agent_wealth_power(a, base_growth_rate, current_round) ==
    LET sanction_effects == get_total_sanction_effects(a)
        a1 == update_wealth(a, grown_wealth(a, base_growth_rate,
                                            sanction_effects.wealth_loss))
        a2 == update_power(a1)
        a3 == [a2 EXCEPT !.power = Max(0, @ - sanction_effects.power_loss)]
    IN update_sanction_effects(a3, current_round)

\* Variant: the statistics are refreshed at the end of the wealth and power
\* update as well.
update_wealth_power_refreshed(s) ==
    update_statistics(
        [s EXCEPT !.agents =
                    Field(s.agents,
                          LAMBDA a : update_agent_wealth_power(
                                        a, s.config.base_growth_rate, s.current_round)),
                  !.pc = "sanction"])

update_wealth_power(s) ==
    [s EXCEPT !.agents =
                Field(s.agents,
                      LAMBDA a : update_agent_wealth_power(
                                    a, s.config.base_growth_rate, s.current_round)),
              !.pc = "sanction"]

execute_social_sanctions(s) ==
    LET sanction_lever == s.policy_levers.social_sanction
        threshold == s.config.sanction_trigger_threshold
        sanctioned(a) ==
            LET deviation == Abs(a.ideology_value * Unit - s.average_ideology)
            IN IF deviation > threshold
               THEN add_sanction_effect(
                        a, Mul(sanction_lever, Mul(deviation, deviation)),
                        s.current_round)
               ELSE a
    IN [s EXCEPT !.agents = Field(s.agents, sanctioned), !.pc = "stats"]

statistics_step(s) == [update_statistics(s) EXCEPT !.pc = "snapshot"]

\* run_simulation after _run_single_round: record the round, then every
\* tenth round go on to the periodic operations.
\* Variant: the periodic operations follow every snapshot.
append_snapshot_always_periodic(s) ==
    [s EXCEPT !.rounds = Append(@, society_to_dict(s)), !.pc = "learning"]

append_snapshot(s) ==
    [s EXCEPT !.rounds = Append(@, society_to_dict(s)),
              !.pc = IF s.current_round % PeriodicInterval = 0 THEN "learning"
                     ELSE "loop"]

\* The success cohort: positions of the top 20% by power.
successful_agents(s) ==
    SubSeq(SortedByPower(s.agents, 1..Len(s.agents)), 1, (Len(s.agents) * 2) \div 10)

\* Variant: a cohort member of the same class is preferred to one of the
\* same gender.
find_learning_target_class_first(s, agent, successful, k) ==
    LET pick(candidates) == candidates[Below(s.rng.py, k, Len(candidates)) + 1]
        same_both == SelectSeq(successful, LAMBDA j :
                        s.agents[j].gender = agent.gender
                        /\ s.agents[j].class_level = agent.class_level)
        same_gender == SelectSeq(successful, LAMBDA j :
                          s.agents[j].gender = agent.gender)
        same_class == SelectSeq(successful, LAMBDA j :
                         s.agents[j].class_level = agent.class_level)
    IN IF same_both # << >> THEN pick(same_both)
       ELSE IF same_class # << >> THEN pick(same_class)
       ELSE IF same_gender # << >> THEN pick(same_gender)
       ELSE pick(successful)

\* _find_learning_target: the position of the chosen cohort member; the
\* choice takes the k-th draw from random.
find_learning_target(s, agent, successful, k) ==
    LET pick(candidates) == candidates[Below(s.rng.py, k, Len(candidates)) + 1]
        same_both == SelectSeq(successful, LAMBDA j :
                        s.agents[j].gender = agent.gender
                        /\ s.agents[j].class_level = agent.class_level)
        same_gender == SelectSeq(successful, LAMBDA j :
                          s.agents[j].gender = agent.gender)
        same_class == SelectSeq(successful, LAMBDA j :
                         s.agents[j].class_level = agent.class_level)
    IN IF same_both # << >> THEN pick(same_both)
       ELSE IF same_gender # << >> THEN pick(same_gender)
       ELSE IF same_class # << >> THEN pick(same_class)
       ELSE pick(successful)

InSeq(x, seq) == \E i \in 1..Len(seq) : seq[i] = x

execute_learning_imitation(s) ==
    LET learning_rate == s.config.learning_rate
        successful == successful_agents(s)
        n == Len(s.agents)
        learners == SelectSeq([i \in 1..n |-> i], LAMBDA i : ~InSeq(i, successful))
        \* the learner at position i takes as many draws as learners up to i
        draw(i) == Cardinality({j \in 1..i : ~InSeq(j, successful)})
        learned(i) ==
            IF InSeq(i, successful) THEN s.agents[i]
            ELSE learn_from_successful_agent(
                    s.agents[i],
                    s.agents[find_learning_target(s, s.agents[i], successful,
                                                  draw(i))],
                    learning_rate)
    IN IF successful = << >> THEN [s EXCEPT !.pc = "conversion"]
       ELSE [s EXCEPT !.agents = [i \in 1..n |-> learned(i)],
                      !.rng.py = Skip(@, Len(learners)),
                      !.pc = "conversion"]

\* One member's turn in _execute_ideology_conversion: [agent, draws], with k
\* draws taken from random before it.
convert_agent(a, current_round, py, k) ==
    LET personal_benefit == (a.wealth - 5000) + (a.power - 5000)
        frustrated == a.ideology \in {"P", "F"} /\ personal_benefit < 0 - 2000
        d1 == IF frustrated THEN 1 ELSE 0
        dissonance ==
            IF a.ideology \in {"P", "F"} /\ personal_benefit < 0 - 1000
            THEN IF Uniform(py, k + d1 + 1) < 1000
                 THEN [agent |-> change_ideology(
                                    a, IF a.ideology = "P" THEN "F" ELSE "P",
                                    current_round).agent,
                       draws |-> d1 + 1]
                 ELSE [agent |-> a, draws |-> d1 + 1]
            ELSE [agent |-> a, draws |-> d1]
    IN IF current_round - a.last_ideology_change < IdeologyCooldown
       THEN [agent |-> a, draws |-> 0]
       ELSE IF frustrated /\ Uniform(py, k + 1) < 3000
       THEN [agent |-> change_ideology(a, "U", current_round).agent, draws |-> 1]
       ELSE IF a.ideology = "U"
       THEN IF a.gender = "male" /\ a.class_level \notin {"middle", "high"}
            THEN [agent |-> a, draws |-> 0]
            ELSE IF Uniform(py, k + 1) < 2000
            THEN [agent |-> change_ideology(
                               a, IF a.gender = "male" THEN "P" ELSE "F",
                               current_round).agent,
                  draws |-> 1]
            ELSE [agent |-> a, draws |-> 1]
       ELSE dissonance

RECURSIVE convert_from(_, _, _)
convert_from(s, i, k) ==
    IF i > Len(s.agents) THEN [s EXCEPT !.rng.py = Skip(@, k)]
    ELSE LET r == convert_agent(s.agents[i], s.current_round, s.rng.py, k)
         IN convert_from([s EXCEPT !.agents[i] = r.agent], i + 1, k + r.draws)

execute_ideology_conversion(s) == [convert_from(s, 1, 0) EXCEPT !.pc = "circle"]

rebuild_circle(s) == [update_core_decision_circle(s) EXCEPT !.pc = "mobility"]

\* Variant: nobody is promoted into a tier that has no members.
simulation_check_class_mobility_members_only(s) ==
    LET average(tier) == IF s.class_stats[tier].count = 0 THEN 100 * Unit
                         ELSE s.class_stats[tier].avg_wealth
        class_averages == [low |-> average("low"), middle |-> average("middle"),
                           high |-> average("high")]
        n == Len(s.agents)
        new_class(i) == check_class_mobility(s.agents[i], class_averages)
        moved == SelectSeq([i \in 1..n |-> i],
                           LAMBDA i : new_class(i) # s.agents[i].class_level)
        mobility_changes ==
            [m \in 1..Len(moved) |->
                [agent_id |-> s.agents[moved[m]].id,
                 from_class |-> s.agents[moved[m]].class_level,
                 to_class |-> new_class(moved[m]),
                 wealth |-> s.agents[moved[m]].wealth]]
        reassigned ==
            [s EXCEPT !.agents = [i \in 1..n |->
                                    [s.agents[i] EXCEPT !.class_level = new_class(i)]],
                      !.pc = "loop"]
    IN IF mobility_changes # << >>
       THEN add_event(reassigned, [type |-> "class_mobility",
                                   changes |-> mobility_changes,
                                   total_changes |-> Len(mobility_changes)])
       ELSE reassigned

simulation_check_class_mobility(s) ==
    LET class_averages == [low |-> s.class_stats.low.avg_wealth,
                           middle |-> s.class_stats.middle.avg_wealth,
                           high |-> s.class_stats.high.avg_wealth]
        n == Len(s.agents)
        new_class(i) == check_class_mobility(s.agents[i], class_averages)
        moved == SelectSeq([i \in 1..n |-> i],
                           LAMBDA i : new_class(i) # s.agents[i].class_level)
        mobility_changes ==
            [m \in 1..Len(moved) |->
                [agent_id |-> s.agents[moved[m]].id,
                 from_class |-> s.agents[moved[m]].class_level,
                 to_class |-> new_class(moved[m]),
                 wealth |-> s.agents[moved[m]].wealth]]
        reassigned ==
            [s EXCEPT !.agents = [i \in 1..n |->
                                    [s.agents[i] EXCEPT !.class_level = new_class(i)]],
                      !.pc = "loop"]
    IN IF mobility_changes # << >>
       THEN add_event(reassigned, [type |-> "class_mobility",
                                   changes |-> mobility_changes,
                                   total_changes |-> Len(mobility_changes)])
       ELSE reassigned

(***************************************************************************)
(* The configurations a run is started with: the panel's defaults and its   *)
(* presets, the ends of its tax slider, and two population sizes.           *)
(***************************************************************************)
DefaultConfig ==
    [total_population |-> 5,
     male_care_skill_mean |-> 4000, male_competition_skill_mean |-> 6000,
     female_care_skill_mean |-> 6000, female_competition_skill_mean |-> 4000,
     skill_std_dev |-> 1500,
     competition_reward |-> 10000, care_reward |-> 10000,
     tax_redistribution |-> 2000, attribution_bias |-> 0,
     social_sanction |-> 3000,
     base_growth_rate |-> 100, learning_rate |-> 1000,
     sanction_trigger_threshold |-> 4000,
     max_rounds |-> MaxRounds, random_seed |-> 42]

PatriarchalConfig ==
    [DefaultConfig EXCEPT
        !.male_care_skill_mean = 3000, !.male_competition_skill_mean = 7000,
        !.female_care_skill_mean = 7000, !.female_competition_skill_mean = 3000,
        !.competition_reward = 15000, !.care_reward = 5000,
        !.attribution_bias = 3000, !.tax_redistribution = 1000,
        !.social_sanction = 5000]

EgalitarianConfig ==
    [DefaultConfig EXCEPT
        !.male_care_skill_mean = 5000, !.male_competition_skill_mean = 5000,
        !.female_care_skill_mean = 5000, !.female_competition_skill_mean = 5000,
        !.tax_redistribution = 3000, !.social_sanction = 2000]

\* The lever sliders' lower ends for competition reward and attribution bias.
SliderMinimaConfig ==
    [DefaultConfig EXCEPT !.competition_reward = 0,
                          !.attribution_bias = 0 - Unit]

Configs ==
    LET presets == {DefaultConfig, PatriarchalConfig, EgalitarianConfig,
                    SliderMinimaConfig,
                    [DefaultConfig EXCEPT !.tax_redistribution = 5000],
                    [DefaultConfig EXCEPT !.tax_redistribution = 0,
                                          !.max_rounds = MaxRounds - 1]}
    IN {[c EXCEPT !.total_population = n] : c \in presets, n \in {5, MaxPopulation}}

\* The generators' states when the program starts.
SeedRng(k) == [py |-> (k * 49244 + 44880) % RngModulus,
               np |-> (k * 4564 + 32665) % RngModulus]

NoTwin == [pc |-> "off"]

NoCall == [op |-> "none"]

(***************************************************************************)
(* The run: one action per step of run_simulation.                          *)
(***************************************************************************)
Init ==
    /\ \E config \in Configs, k \in 1..NumSeeds :
           sim = initialize_society(config, SeedRng(k))
    /\ twin = NoTwin
    /\ call = NoCall

BeginRound ==
    /\ sim.pc = "loop"
    /\ sim' = begin_round(sim)
    /\ UNCHANGED <<twin, call>>

CoreCircleVoting ==
    /\ sim.pc = "voting"
    /\ sim' = core_circle_voting(sim)
    /\ UNCHANGED <<twin, call>>

EventStep ==
    /\ sim.pc = "event"
    /\ sim' = event_step(sim)
    /\ UNCHANGED <<twin, call>>

ApplyAttributionBias ==
    /\ sim.pc = "bias"
    /\ sim' = apply_attribution_bias(sim)
    /\ UNCHANGED <<twin, call>>

ExecuteTaxRedistribution ==
    /\ sim.pc = "tax"
    /\ sim' = execute_tax_redistribution(sim)
    /\ UNCHANGED <<twin, call>>

UpdateWealthPower ==
    /\ sim.pc = "update"
    /\ sim' = update_wealth_power(sim)
    /\ UNCHANGED <<twin, call>>

ExecuteSocialSanctions ==
    /\ sim.pc = "sanction"
    /\ sim' = execute_social_sanctions(sim)
    /\ UNCHANGED <<twin, call>>

UpdateStatistics ==
    /\ sim.pc = "stats"
    /\ sim' = statistics_step(sim)
    /\ UNCHANGED <<twin, call>>

AppendSnapshot ==
    /\ sim.pc = "snapshot"
    /\ sim' = append_snapshot(sim)
    /\ UNCHANGED <<twin, call>>

ExecuteLearningImitation ==
    /\ sim.pc = "learning"
    /\ sim' = execute_learning_imitation(sim)
    /\ UNCHANGED <<twin, call>>

ExecuteIdeologyConversion ==
    /\ sim.pc = "conversion"
    /\ sim' = execute_ideology_conversion(sim)
    /\ UNCHANGED <<twin, call>>

UpdateCoreDecisionCircle ==
    /\ sim.pc = "circle"
    /\ sim' = rebuild_circle(sim)
    /\ UNCHANGED <<twin, call>>

CheckClassMobility ==
    /\ sim.pc = "mobility"
    /\ sim' = simulation_check_class_mobility(sim)
    /\ UNCHANGED <<twin, call>>

Next ==
    \/ BeginRound
    \/ CoreCircleVoting
    \/ EventStep
    \/ ApplyAttributionBias
    \/ ExecuteTaxRedistribution
    \/ UpdateWealthPower
    \/ ExecuteSocialSanctions
    \/ UpdateStatistics
    \/ AppendSnapshot
    \/ ExecuteLearningImitation
    \/ ExecuteIdeologyConversion
    \/ UpdateCoreDecisionCircle
    \/ CheckClassMobility

Spec == Init /\ [][Next]_vars

(***************************************************************************)
(* Properties of the run.                                                   *)
(***************************************************************************)
\* The aggregates update_statistics maintains.
Aggregates(s) ==
    [social_equality |-> s.social_equality,
     average_wealth |-> s.average_wealth,
     average_power |-> s.average_power,
     average_ideology |-> s.average_ideology,
     gender_stats |-> s.gender_stats,
     ideology_stats |-> s.ideology_stats,
     class_stats |-> s.class_stats]

\* C1 (as stated): in every reachable state, the states between the steps of
\* a round included, every member's wealth is at least 0.01.
C1_WealthFloorEverywhere ==
    \A i \in 1..Len(sim.agents) : sim.agents[i].wealth >= 100

\* C2 (as stated): in every snapshot, and right after the learning pass,
\* every member's power is 0.5 * wealth + 0.25 * competition skill
\* + 0.25 * care skill of the same state.
C2_PowerIsDerived ==
    /\ \A k \in 1..Len(sim.rounds) :
          \A i \in 1..Len(sim.rounds[k].agents) :
              LET a == sim.rounds[k].agents[i]
              IN a.power = (5000 * a.wealth + 2500 * a.competition_skill
                            + 2500 * a.care_skill) \div Unit
    /\ sim.pc = "conversion" =>
          \A i \in 1..Len(sim.agents) :
              LET a == sim.agents[i]
              IN a.power = (5000 * a.wealth + 2500 * a.competition_skill
                            + 2500 * a.care_skill) \div Unit

\* C4 (as stated): when a round has finished, its periodic operations
\* included, the stored aggregates are the ones update_statistics would
\* compute from the members as they are.
C4_AggregatesFreshAtRoundEnd ==
    sim.pc \in {"loop", "done"} =>
        Aggregates(sim) = Aggregates(update_statistics(sim))

\* C7: a member's ideology changes only in the conversion pass, at most once
\* per pass, never before round 3, and never sooner than three rounds after
\* the member's previous change; the change records its round.
C7_IdeologyChangesSpaced ==
    [][\A i \in 1..Len(sim.agents) :
          LET a == sim.agents[i]
              b == sim'.agents[i]
          IN (b.ideology # a.ideology
              \/ b.ideology_history # a.ideology_history
              \/ b.last_ideology_change # a.last_ideology_change) =>
                /\ sim.pc = "conversion"
                /\ b.ideology_history = Append(a.ideology_history, b.ideology)
                /\ sim.current_round >= 3
                /\ sim.current_round - a.last_ideology_change >= 3
                /\ b.last_ideology_change = sim.current_round]_vars

\* C7's case: a member that has changed ideology twice, the second change
\* made in the current round.
C7_Witness ==
    \E i \in 1..Len(sim.agents) :
        /\ Len(sim.agents[i].ideology_history) >= 3
        /\ sim.agents[i].last_ideology_change = sim.current_round
        /\ sim.pc = "circle"

\* The steps of a round, by the position the run is at before each.
RoundSteps == <<"voting", "event", "bias", "tax", "update", "sanction",
                "stats", "snapshot">>

\* C10: a round runs voting, event, attribution bias, tax, wealth and power
\* update, sanctions and the statistics refresh in this order, once each,
\* and the snapshot is appended only after the statistics refresh.
C10_RoundOrder ==
    [][/\ \A k \in 1..7 : sim.pc = RoundSteps[k] => sim'.pc = RoundSteps[k + 1]
       /\ (sim.pc = "loop" /\ sim'.pc # "done") =>
             (sim'.pc = "voting" /\ sim'.current_round = sim.current_round + 1)
       /\ sim.pc # "loop" => sim'.current_round = sim.current_round
       \* the event step logs the round's one social or economic event
       /\ sim.pc = "event" =>
             /\ Len(sim'.event_history) = Len(sim.event_history) + 1
             /\ sim'.event_history[Len(sim'.event_history)].type
                    \in {"social", "economic"}
       /\ sim.pc \in {"bias", "tax", "update", "sanction", "stats", "snapshot"} =>
             sim'.event_history = sim.event_history
       \* the tax step moves wealth only, the update step extends each history
       /\ sim.pc = "tax" =>
             \A i \in 1..Len(sim.agents) :
                 sim'.agents[i] = [sim.agents[i] EXCEPT !.wealth = sim'.agents[i].wealth]
       /\ \A i \in 1..Len(sim.agents) :
             Len(sim'.agents[i].wealth_history) =
                 Len(sim.agents[i].wealth_history) + (IF sim.pc = "update" THEN 1 ELSE 0)
       \* the refresh recomputes the aggregates and leaves the members alone
       /\ sim.pc = "stats" =>
             /\ sim'.agents = sim.agents
             /\ Aggregates(sim') = Aggregates(update_statistics(sim))
       \* the snapshot is taken of refreshed aggregates, once per round
       /\ sim'.rounds # sim.rounds =>
             /\ sim.pc = "snapshot"
             /\ sim'.rounds = Append(sim.rounds, society_to_dict(sim))
             /\ Aggregates(sim) = Aggregates(update_statistics(sim))
             /\ Len(sim'.rounds) = sim.current_round + 1
             /\ \A i \in 1..Len(sim.agents) :
                   Len(sim.agents[i].wealth_history) = sim.current_round + 1
       /\ sim.pc = "snapshot" => sim'.rounds # sim.rounds]_vars

\* C10's case: three rounds have run to their snapshots.
C10_Witness ==
    /\ sim.pc = "loop"
    /\ sim.current_round = 3
    /\ Len(sim.rounds) = 4

(***************************************************************************)
(* Two runs of one configuration, side by side.  Neither run seeds its      *)
(* generators from the configuration, so each starts from a generator       *)
(* state of its own.                                                        *)
(***************************************************************************)
MaxPairRounds == 3

\* The step of run_simulation a run at position pc takes next.
run_step(s) ==
    CASE s.pc = "loop" -> begin_round(s)
      [] s.pc = "voting" -> core_circle_voting(s)
      [] s.pc = "event" -> event_step(s)
      [] s.pc = "bias" -> apply_attribution_bias(s)
      [] s.pc = "tax" -> execute_tax_redistribution(s)
      [] s.pc = "update" -> update_wealth_power(s)
      [] s.pc = "sanction" -> execute_social_sanctions(s)
      [] s.pc = "stats" -> statistics_step(s)
      [] s.pc = "snapshot" -> append_snapshot(s)
      [] s.pc = "learning" -> execute_learning_imitation(s)
      [] s.pc = "conversion" -> execute_ideology_conversion(s)
      [] s.pc = "circle" -> rebuild_circle(s)
      [] s.pc = "mobility" -> simulation_check_class_mobility(s)
      [] OTHER -> s

PairConfigs ==
    {[c EXCEPT !.max_rounds = MaxPairRounds] :
        c \in {DefaultConfig, PatriarchalConfig}}

PairInit ==
    /\ \E config \in PairConfigs, k1 \in 1..NumSeeds, k2 \in 1..NumSeeds :
          /\ sim = initialize_society(config, SeedRng(k1))
          /\ twin = initialize_society(config, SeedRng(k2))
    /\ call = NoCall

PairStep ==
    /\ sim.pc # "done"
    /\ sim' = run_step(sim)
    /\ twin' = run_step(twin)
    /\ UNCHANGED call

SpecPair == PairInit /\ [][PairStep]_vars

\* C3 (as stated): two runs of the same configuration (the same random_seed,
\* population and options) record the same equality index at every round.
C3_SameConfigSameEquality ==
    (twin # NoTwin /\ twin.config = sim.config) =>
        \A k \in 1..Min(Len(sim.rounds), Len(twin.rounds)) :
            EqualityValue(sim.rounds[k].social_equality)
                = EqualityValue(twin.rounds[k].social_equality)

(***************************************************************************)
(* The members' methods called directly, with any round number.             *)
(***************************************************************************)
MaxCallRound == 8
MaxEffects == 2
MaxChanges == 2

SanctionIntensities == {Unit, 3700}

\* A member as constructed, before any round has run.
MemberInit ==
    /\ \E k \in 1..2 : sim = initialize_society(DefaultConfig, SeedRng(k))
    /\ twin = NoTwin
    /\ call = NoCall

CallAddSanctionEffect ==
    \E intensity \in SanctionIntensities, current_round \in 5..MaxCallRound :
        /\ Len(sim.agents[1].sanction_effects) < MaxEffects
        /\ sim' = [sim EXCEPT !.agents[1] =
                       add_sanction_effect(@, intensity, current_round)]
        /\ call' = [op |-> "add_sanction_effect", round |-> current_round,
                    before |-> sim.agents[1]]
        /\ UNCHANGED twin

CallUpdateSanctionEffects ==
    \E current_round \in 5..MaxCallRound :
        /\ sim' = [sim EXCEPT !.agents[1] =
                       update_sanction_effects(@, current_round)]
        /\ call' = [op |-> "update_sanction_effects", round |-> current_round,
                    before |-> sim.agents[1]]
        /\ UNCHANGED twin

SanctionNext == CallAddSanctionEffect \/ CallUpdateSanctionEffects

SpecSanction == MemberInit /\ [][SanctionNext]_vars

\* 0.08 * i * 0.5^k (per100 = 8) or 0.03 * i * 0.5^k (per100 = 3), summed
\* over the effects that are k = 0, 1 or 2 rounds old at round r.
ExpectedLoss(effects, r, per100) ==
    SumSeq([j \in 1..Len(effects) |->
               LET k == r - effects[j].start_round
               IN IF k \in 0..2
                  THEN (effects[j].intensity * per100) \div (100 * Pow2(k))
                  ELSE 0])

\* C5: after update_sanction_effects(s + k) an effect of intensity i added
\* at round s counts in get_total_sanction_effects with a power loss of
\* 0.08 * i * 0.5^k and a wealth loss of 0.03 * i * 0.5^k for k = 0, 1, 2,
\* and is no longer among the member's effects for k >= 3.
C5_SanctionDecay ==
    (/\ call.op = "update_sanction_effects"
     /\ \A j \in 1..Len(call.before.sanction_effects) :
           call.before.sanction_effects[j].start_round <= call.round) =>
        LET before == call.before.sanction_effects
            after == sim.agents[1].sanction_effects
            total == get_total_sanction_effects(sim.agents[1])
        IN /\ total.power_loss = ExpectedLoss(before, call.round, 8)
           /\ total.wealth_loss = ExpectedLoss(before, call.round, 3)
           /\ \A j \in 1..Len(after) : call.round - after[j].start_round \in 0..2
           /\ Len(after) = Cardinality({j \in 1..Len(before) :
                                           call.round - before[j].start_round < 3})

\* C5's case: the intensity-1.0 effect of round 5, updated at round 7.
C5_Witness ==
    /\ call.op = "update_sanction_effects"
    /\ call.round = 7
    /\ Len(call.before.sanction_effects) = 1
    /\ call.before.sanction_effects[1].intensity = Unit
    /\ call.before.sanction_effects[1].start_round = 5
    /\ get_total_sanction_effects(sim.agents[1]).power_loss = 200
    /\ get_total_sanction_effects(sim.agents[1]).wealth_loss = 75

IdeologyCodes == {"P", "F", "U", "X"}

CallChangeIdeology ==
    \E new_ideology \in IdeologyCodes, current_round \in 0..MaxCallRound :
        /\ Len(sim.agents[1].ideology_history) <= MaxChanges
        /\ LET res == change_ideology(sim.agents[1], new_ideology, current_round)
           IN /\ sim' = [sim EXCEPT !.agents[1] = res.agent]
              /\ call' = [op |-> "change_ideology", new |-> new_ideology,
                          round |-> current_round, before |-> sim.agents[1],
                          ret |-> res.ret, raised |-> res.raised]
        /\ UNCHANGED twin

SpecIdeology == MemberInit /\ [][CallChangeIdeology]_vars

\* C6: change_ideology(new, round) with round - last_ideology_change < 3
\* returns failure and leaves ideology, ideology_value, last_ideology_change
\* and ideology_history as they were; with round - last_ideology_change >= 3
\* and new one of P, F, U it sets ideology to new, ideology_value to the
\* value mapped to new, last_ideology_change to round, appends new to
\* ideology_history and returns success.
C6_ChangeIdeologyContract ==
    call.op = "change_ideology" =>
        LET b == call.before
            a == sim.agents[1]
        IN /\ call.round - b.last_ideology_change < 3 =>
                 /\ call.ret = FALSE
                 /\ a.ideology = b.ideology
                 /\ a.ideology_value = b.ideology_value
                 /\ a.last_ideology_change = b.last_ideology_change
                 /\ a.ideology_history = b.ideology_history
           /\ (call.round - b.last_ideology_change >= 3
               /\ call.new \in {"P", "F", "U"}) =>
                 /\ call.ret = TRUE
                 /\ a.ideology = call.new
                 /\ a.ideology_value = (IF call.new = "P" THEN 1
                                        ELSE IF call.new = "F" THEN 0 - 1 ELSE 0)
                 /\ a.last_ideology_change = call.round
                 /\ a.ideology_history = Append(b.ideology_history, call.new)

\* C6's case: a call refused two rounds after a change that was accepted.
C6_Witness ==
    /\ call.op = "change_ideology"
    /\ call.ret = FALSE
    /\ Len(call.before.ideology_history) = 2
    /\ call.round - call.before.last_ideology_change = 2
    /\ call.before.last_ideology_change >= 3

(***************************************************************************)
(* A society built over a given member list, its methods called directly.   *)
(***************************************************************************)
WealthLevels == {0, 100, 5000, 5001, 9000}

\* A member as Agent(...) builds it, its wealth then set to the given one.
FixtureAgent(id, wealth) ==
    LET a == NewAgent(id, IF id % 2 = 1 THEN "male" ELSE "female",
                      <<"low", "middle", "high">>[(id % 3) + 1],
                      DefaultConfig, SeedRng(1).np, 4 * (id - 1))
    IN [a EXCEPT !.wealth = wealth]

\* Wealth lists: every list over WealthLevels of up to MaxGiniPopulation
\* members, and for larger populations one list of equal and one of mixed
\* wealths.
FixtureWealths ==
    UNION {[1..n -> WealthLevels] : n \in 0..MaxGiniPopulation}
    \cup {Repeat(5000, n) : n \in (MaxGiniPopulation + 1)..MaxCirclePopulation}
    \cup {[i \in 1..n |-> 100 + ((i * 37) % 11) * 800] :
             n \in (MaxGiniPopulation + 1)..MaxCirclePopulation}

SocietyInit ==
    /\ \E w \in FixtureWealths :
          sim = society_init([DefaultConfig EXCEPT !.total_population = Len(w)],
                             [i \in 1..Len(w) |-> FixtureAgent(i, w[i])],
                             SeedRng(1))
    /\ twin = NoTwin
    /\ call = NoCall

\* A step of the round writing a member's wealth.
AssignWealth ==
    \E wealth \in WealthLevels :
        /\ Len(sim.agents) >= 1
        /\ sim' = [sim EXCEPT !.agents[1].wealth = wealth]
        /\ call' = [op |-> "assign_wealth"]
        /\ UNCHANGED twin

CallUpdateStatistics ==
    /\ sim' = update_statistics(sim)
    /\ call' = [op |-> "update_statistics"]
    /\ UNCHANGED twin

CallUpdateCoreDecisionCircle ==
    /\ sim' = update_core_decision_circle(sim)
    /\ call' = [op |-> "update_core_decision_circle"]
    /\ UNCHANGED twin

SocietyNext ==
    \/ AssignWealth
    \/ CallUpdateStatistics
    \/ CallUpdateCoreDecisionCircle

SpecSociety == SocietyInit /\ [][SocietyNext]_vars

AllWealthsIdentical(agents) ==
    \A i \in 1..Len(agents) : \A j \in 1..Len(agents) :
        agents[i].wealth = agents[j].wealth

\* C8: after a statistics refresh of a populated society the equality index
\* lies in [0, 1], and it is 1 exactly when all members' wealths are
\* identical.
C8_EqualityIndex ==
    (call.op \in {"none", "update_statistics"} /\ Len(sim.agents) >= 1) =>
        LET e == sim.social_equality
        IN /\ e.d > 0
           /\ 0 <= e.n
           /\ e.n <= e.d
           /\ (e.n = e.d) <=> AllWealthsIdentical(sim.agents)

\* C8's case: ten members of wealth 0.5 each, refreshed: equality 1.0.
C8_Witness ==
    /\ call.op = "update_statistics"
    /\ Len(sim.agents) = 10
    /\ \A i \in 1..10 : sim.agents[i].wealth = 5000
    /\ sim.social_equality.n = sim.social_equality.d

PeriodicSteps == <<"learning", "conversion", "circle", "mobility">>

\* C11: learning, ideology conversion, circle rebuild and class-mobility
\* check run exactly in the rounds that are multiples of 10, after the
\* round's regular steps and in this order; in no other round does any of
\* them run, and outside them circle membership, class tiers and ideologies
\* do not change.
C11_PeriodicOperations ==
    [][/\ sim.pc = "snapshot" =>
             sim'.pc = (IF sim.current_round % 10 = 0 THEN "learning" ELSE "loop")
       /\ \A k \in 1..3 :
             sim.pc = PeriodicSteps[k] => sim'.pc = PeriodicSteps[k + 1]
       /\ sim.pc = "mobility" => sim'.pc = "loop"
       /\ sim'.pc \in {"learning", "conversion", "circle", "mobility"} =>
             (sim'.current_round % 10 = 0 /\ sim'.current_round >= 10)
       /\ sim'.pc = "learning" => sim.pc = "snapshot"
       /\ sim'.core_decision_circle # sim.core_decision_circle => sim.pc = "circle"
       /\ \A i \in 1..Len(sim.agents) :
             /\ sim'.agents[i].class_level # sim.agents[i].class_level =>
                   sim.pc = "mobility"
             /\ sim'.agents[i].ideology # sim.agents[i].ideology =>
                   sim.pc = "conversion"
             /\ (sim'.agents[i].care_skill # sim.agents[i].care_skill
                 \/ sim'.agents[i].competition_skill # sim.agents[i].competition_skill) =>
                   sim.pc = "learning"]_vars

\* C11's case: round 10 has finished and its conversion pass changed a
\* member's ideology.
C11_Witness ==
    /\ sim.pc = "loop"
    /\ sim.current_round = 10
    /\ \E i \in 1..Len(sim.agents) : sim.agents[i].last_ideology_change = 10

\* C12 (as stated): the snapshot recorded for round r holds every entry of
\* the event log stamped with round r (the class-mobility event of that
\* round included), and every entry of the log carries a round and a type.
C12_SnapshotHoldsRoundEvents ==
    /\ \A i \in 1..Len(sim.event_history) :
          {"round", "type"} \subseteq DOMAIN sim.event_history[i]
    /\ \A k \in 1..Len(sim.rounds) :
          \A i \in 1..Len(sim.event_history) :
              sim.event_history[i].round = sim.rounds[k].current_round =>
                  \E j \in 1..Len(sim.rounds[k].event_history) :
                      sim.rounds[k].event_history[j] = sim.event_history[i]

TotalWealth(agents) == SumSeq([i \in 1..Len(agents) |-> agents[i].wealth])

\* C13: with the tax lever at or below 0 the tax step changes no member's
\* wealth; with any lever the members' total wealth after the tax step is
\* the total before it, up to the rounding of the equal shares (less than
\* one unit of 0.0001 per member).
C13_TaxConservesWealth ==
    [][sim.pc = "tax" =>
          /\ sim.policy_levers.tax_redistribution <= 0 =>
                \A i \in 1..Len(sim.agents) :
                    sim'.agents[i].wealth = sim.agents[i].wealth
          /\ TotalWealth(sim.agents) - TotalWealth(sim'.agents)
                 \in 0..(Len(sim.agents) - 1)
          /\ \A i \in 1..Len(sim.agents) :
                sim'.agents[i] =
                    [sim.agents[i] EXCEPT !.wealth = sim'.agents[i].wealth]]_vars

\* C13's case: the tax step has run in round 2 with the lever at 0.5.
C13_Witness ==
    /\ sim.pc = "update"
    /\ sim.current_round = 2
    /\ sim.policy_levers.tax_redistribution = 5000

\* wealth * (1 + growth_rate) minus the sanction wealth loss, for a member
\* as it stands before the wealth update.
WealthBeforeDecay(a, config) ==
    LET growth_rate == config.base_growth_rate
                       + (2 * ((a.competition_skill + a.care_skill) \div 2)) \div 100
        wealth_loss == SumSeq([j \in 1..Len(a.sanction_effects) |->
                                  a.sanction_effects[j].current_wealth_loss])
    IN (a.wealth * (Unit + growth_rate)) \div Unit - wealth_loss

\* C14: in the wealth update a member whose wealth * (1 + growth_rate) minus
\* sanction wealth loss exceeds 0.9 commits that value times 0.98, any other
\* member commits the value itself; either is floored at 0.01.
C14_SoftCap ==
    [][sim.pc = "update" =>
          \A i \in 1..Len(sim.agents) :
              LET v == WealthBeforeDecay(sim.agents[i], sim.config)
                  committed == sim'.agents[i].wealth
              IN /\ v > 9000 => committed = Max(100, (v * 98) \div 100)
                 /\ v <= 9000 => committed = Max(100, v)
                 /\ sim'.agents[i].wealth_history =
                        Append(sim.agents[i].wealth_history, committed)]_vars

\* C14's case: a member left above 0.9 by the update, so decayed by it.
C14_Witness ==
    /\ sim.pc = "sanction"
    /\ \E i \in 1..Len(sim.agents) : sim.agents[i].wealth > 9000

\* C15 (as stated): in every reachable state each of the five levers lies
\* within its bound: competition_reward and care_reward in [0.5, 2.0],
\* tax_redistribution in [0, 0.8], attribution_bias and social_sanction in
\* [0, 1].
C15_LeversWithinBounds ==
    /\ sim.policy_levers.competition_reward \in 5000..20000
    /\ sim.policy_levers.care_reward \in 5000..20000
    /\ sim.policy_levers.tax_redistribution \in 0..8000
    /\ sim.policy_levers.attribution_bias \in 0..Unit
    /\ sim.policy_levers.social_sanction \in 0..Unit

\* The levers put to the vote in the voting step taken from state s.
VotedLevers(s) ==
    {selected_policies(s.rng.py)[k] : k \in 1..Len(selected_policies(s.rng.py))}

\* 1 or -1 when strictly more circle members prefer that direction than
\* prefer the other and than abstain, else 0.
MajorityDirection(s, policy_name) ==
    LET prefers(v) ==
            Cardinality({k \in 1..Len(s.core_decision_circle) :
                get_policy_preference(s, s.agents[s.core_decision_circle[k]],
                                      policy_name) = v})
    IN IF prefers(1) > prefers(0 - 1) /\ prefers(1) > prefers(0) THEN 1
       ELSE IF prefers(0 - 1) > prefers(1) /\ prefers(0 - 1) > prefers(0) THEN 0 - 1
       ELSE 0

\* A value brought back into the lever's bound as vote_on_policy does it.
WithinBound(policy_name, v) ==
    LET lo == IF policy_name \in {"competition_reward", "care_reward"} THEN 5000 ELSE 0
        hi == IF policy_name \in {"competition_reward", "care_reward"} THEN 20000
              ELSE IF policy_name = "tax_redistribution" THEN 8000 ELSE Unit
        w == IF v > hi THEN hi + (v - hi) \div 10
             ELSE IF v < lo THEN lo + (lo - v) \div 10 ELSE v
    IN Max(lo, Min(hi, w))

\* C16 (as stated): a lever put to the vote with a strict majority for one
\* direction is, after the voting step, its old value times (1 + a) for an
\* increase or (1 - a) for a decrease, for some a in [0.05, 0.2], subject
\* only to the bound handling.
C16_MajorityMovesLever ==
    [][sim.pc = "voting" =>
          \A name \in VotedLevers(sim) :
              LET dir == MajorityDirection(sim, name)
                  old == sim.policy_levers[name]
              IN dir # 0 =>
                    \E a \in 500..2000 :
                        sim'.policy_levers[name]
                            = WithinBound(name, (old * (Unit + dir * a)) \div Unit)]_vars

(***************************************************************************)
(* The voting step on a society built over given members: a circle of one   *)
(* or two members of chosen ideology and skills, levers as configured.      *)
(***************************************************************************)
\* A member as Agent(...) builds it, with the given ideology, skills and
\* wealth, and the power these give.
VotingMember(id, ideology, competition_skill, care_skill, wealth) ==
    LET a == FixtureAgent(id, wealth)
        b == [a EXCEPT !.ideology = ideology,
                       !.ideology_value = ideology_values(ideology),
                       !.ideology_history = <<ideology>>,
                       !.competition_skill = competition_skill,
                       !.care_skill = care_skill]
    IN [b EXCEPT !.power = calculate_power(b)]

\* Members 1 and 2 are the most powerful; the others follow FixtureAgent.
VotingMembers(n, i1, c1, s1, i2) ==
    [i \in 1..n |->
        IF i = 1 THEN VotingMember(1, i1, c1, s1, 9000)
        ELSE IF i = 2 THEN VotingMember(2, i2, 3000, 3000, 8000)
        ELSE LET a == FixtureAgent(i, 1000)
             IN [a EXCEPT !.power = calculate_power(a)]]

\* Levers in the middle of their bounds, at a lower bound (the patriarchal
\* preset's care_reward), below one (the sliders' minima) and near the upper
\* bounds.
VotingConfigs ==
    {DefaultConfig, PatriarchalConfig, SliderMinimaConfig,
     [DefaultConfig EXCEPT !.tax_redistribution = 7500,
                           !.social_sanction = 9500,
                           !.care_reward = 19000]}

VotingInit ==
    /\ \E config \in VotingConfigs, n \in {0, 1, 40},
          i1 \in {"P", "F", "U"}, c1 \in {3000, 7000}, s1 \in {3000, 7000},
          i2 \in {"P", "F", "U"}, k \in 1..NumSeeds :
          sim = [society_init([config EXCEPT !.total_population = n],
                              VotingMembers(n, i1, c1, s1, i2), SeedRng(k))
                    EXCEPT !.current_round = 1, !.pc = "voting"]
    /\ twin = NoTwin
    /\ call = NoCall

VotingStep ==
    /\ sim.pc = "voting"
    /\ call.op = "none"
    /\ sim' = core_circle_voting(sim)
    /\ call' = [op |-> "core_circle_voting", before |-> sim]
    /\ UNCHANGED twin

CallVoteOnPolicy ==
    \E policy_name \in {PolicyNames[k] : k \in 1..5} \cup {"unknown_lever"} :
        /\ call.op = "none"
        /\ LET v == vote_on_policy(sim, policy_name)
           IN /\ sim' = [sim EXCEPT !.rng.np = Skip(@, v.draws)]
              /\ call' = [op |-> "vote_on_policy", policy |-> policy_name,
                          value |-> v.value, raised |-> v.raised]
        /\ UNCHANGED twin

VotingNext == VotingStep \/ CallVoteOnPolicy

SpecVoting == VotingInit /\ [][VotingNext]_vars

\* C17 (as stated): a lever put to the vote with no strict majority for either
\* direction keeps its value, and the voting step logs no policy_change
\* event for it.
C17_TieKeepsLever ==
    [][sim.pc = "voting" =>
          \A name \in VotedLevers(sim) :
              MajorityDirection(sim, name) = 0 =>
                  /\ sim'.policy_levers[name] = sim.policy_levers[name]
                  /\ \A j \in (Len(sim.event_history) + 1)..Len(sim'.event_history) :
                        sim'.event_history[j].policy # name]_vars

\* C18: every voting step puts one or two distinct levers to the vote, the
\* levers it leaves out keep their values and get no policy_change event, and
\* no other step of the round changes any lever.
C18_OnlyVotedLeversChange ==
    [][/\ sim.pc = "voting" =>
             LET selected == selected_policies(sim.rng.py)
             IN /\ Len(selected) \in {1, 2}
                /\ Cardinality(VotedLevers(sim)) = Len(selected)
                /\ \A k \in 1..5 :
                      PolicyNames[k] \notin VotedLevers(sim) =>
                          sim'.policy_levers[PolicyNames[k]]
                              = sim.policy_levers[PolicyNames[k]]
                /\ \A j \in (Len(sim.event_history) + 1)..Len(sim'.event_history) :
                      sim'.event_history[j].policy \in VotedLevers(sim)
       /\ sim.pc # "voting" => sim'.policy_levers = sim.policy_levers]_vars

\* A voting step has just moved two different levers.
C18_Witness ==
    /\ sim.pc = "event"
    /\ Len(sim.event_history) >= 2
    /\ LET n == Len(sim.event_history)
           e1 == sim.event_history[n - 1]
           e2 == sim.event_history[n]
       IN /\ e1.type = "policy_change" /\ e2.type = "policy_change"
          /\ e1.round = sim.current_round /\ e2.round = sim.current_round
          /\ e1.policy # e2.policy

\* C19 (as stated): a call of vote_on_policy with a name that is not a lever,
\* and a call of change_ideology with a code outside {P, F, U}, ends in a
\* raised error, whatever the circle and whatever the member's cooldown.
C19_InvalidArgumentsRaise ==
    /\ (call.op = "vote_on_policy" /\ call.policy \notin {PolicyNames[k] : k \in 1..5})
           => call.raised
    /\ (call.op = "change_ideology" /\ call.new \notin {"P", "F", "U"})
           => call.raised

\* Every average, count, percentage and gap of the statistics is zero.
ZeroStatistics(s) ==
    LET group == [count |-> 0, avg_wealth |-> 0, avg_power |-> 0,
                  avg_care_skill |-> 0, avg_competition_skill |-> 0]
        entry == [count |-> 0, percentage |-> 0]
        class == [count |-> 0, avg_wealth |-> 0, avg_power |-> 0,
                  male_count |-> 0, female_count |-> 0]
    IN /\ s.average_wealth = 0 /\ s.average_power = 0 /\ s.average_ideology = 0
       /\ s.gender_stats = [male |-> group, female |-> group,
                            power_gap |-> 0, wealth_gap |-> 0]
       /\ s.ideology_stats = [P |-> entry, F |-> entry, U |-> entry]
       /\ s.class_stats = [low |-> class, middle |-> class, high |-> class]

MeanWealthZero(agents) ==
    /\ agents # << >>
    /\ SumSeq(Field(agents, LAMBDA a : a.wealth)) = 0

\* C20 (as stated): after a statistics refresh of a society with zero
\* members, or with members whose mean wealth is zero, the equality index is
\* 0 and every statistic is zero.
C20_DegenerateRefreshAllZero ==
    (call.op = "update_statistics"
        /\ (sim.agents = << >> \/ MeanWealthZero(sim.agents)))
    => (sim.social_equality.n = 0 /\ ZeroStatistics(sim))

\* C20 (amended): after a statistics refresh of a society built with zero
\* members the equality index is 0 and every statistic is zero; with members
\* whose mean wealth is zero the average wealth, the groups' average wealths
\* and the wealth gap are 0, the counts are those of the members, and the
\* equality index is 1.
C20_DegenerateRefresh ==
    call.op = "update_statistics" =>
        /\ sim.agents = << >> =>
              (sim.social_equality.n = 0 /\ ZeroStatistics(sim))
        /\ MeanWealthZero(sim.agents) =>
              /\ sim.social_equality.n = sim.social_equality.d
              /\ sim.average_wealth = 0
              /\ sim.gender_stats.male.avg_wealth = 0
              /\ sim.gender_stats.female.avg_wealth = 0
              /\ sim.gender_stats.wealth_gap = 0
              /\ sim.gender_stats.male.count + sim.gender_stats.female.count
                     = Len(sim.agents)
              /\ sim.ideology_stats.P.count + sim.ideology_stats.F.count
                     + sim.ideology_stats.U.count = Len(sim.agents)
              /\ \A c \in {"low", "middle", "high"} :
                    sim.class_stats[c].avg_wealth = 0
              /\ sim.class_stats.low.count + sim.class_stats.middle.count
                     + sim.class_stats.high.count = Len(sim.agents)

\* The statistics of three members without any wealth have been refreshed.
C20_Witness ==
    /\ call.op = "update_statistics"
    /\ Len(sim.agents) = 3
    /\ MeanWealthZero(sim.agents)

(***************************************************************************)
(* The configuration panel: validation, then the run button.                *)
(***************************************************************************)
MinPopulation == 50

MaxPanelRounds == 1

\* validate_config with the female skill sum left unchecked.
validate_config_male_only(config) ==
    LET d == config.class_distribution
        class_sum == d.low + d.middle + d.high
    IN (IF Abs(class_sum - Unit) > 100 THEN <<"class_distribution">> ELSE << >>)
       \o (IF config.total_population < MinPopulation
           THEN <<"total_population">> ELSE << >>)
       \o (IF config.male_care_skill_mean + config.male_competition_skill_mean
                  > 18000
           THEN <<"male_skills">> ELSE << >>)

\* validate_config: the list of failures, one name per message.
validate_config(config) ==
    LET d == config.class_distribution
        class_sum == d.low + d.middle + d.high
    IN (IF Abs(class_sum - Unit) > 100 THEN <<"class_distribution">> ELSE << >>)
       \o (IF config.total_population < MinPopulation
           THEN <<"total_population">> ELSE << >>)
       \o (IF config.male_care_skill_mean + config.male_competition_skill_mean
                  > 18000
           THEN <<"male_skills">> ELSE << >>)
       \o (IF config.female_care_skill_mean + config.female_competition_skill_mean
                  > 18000
           THEN <<"female_skills">> ELSE << >>)

\* Configurations as the panel's dictionary holds them.
PanelConfigs ==
    {[total_population |-> n,
      class_distribution |-> [low |-> 6000, middle |-> 3000, high |-> high],
      male_care_skill_mean |-> m[1], male_competition_skill_mean |-> m[2],
      female_care_skill_mean |-> f[1], female_competition_skill_mean |-> f[2],
      skill_std_dev |-> DefaultConfig.skill_std_dev,
      competition_reward |-> DefaultConfig.competition_reward,
      care_reward |-> DefaultConfig.care_reward,
      tax_redistribution |-> DefaultConfig.tax_redistribution,
      attribution_bias |-> DefaultConfig.attribution_bias,
      social_sanction |-> DefaultConfig.social_sanction,
      base_growth_rate |-> DefaultConfig.base_growth_rate,
      learning_rate |-> DefaultConfig.learning_rate,
      sanction_trigger_threshold |-> DefaultConfig.sanction_trigger_threshold,
      max_rounds |-> MaxPanelRounds, random_seed |-> 42] :
        n \in {MinPopulation - 1, MinPopulation},
        high \in {899, 901, 1000, 1099, 1101},
        m \in {<<4000, 6000>>, <<9000, 9000>>, <<9000, 9001>>},
        f \in {<<6000, 4000>>, <<9500, 9000>>}}

PanelInit ==
    /\ \E config \in PanelConfigs, k \in 1..NumSeeds :
          sim = [pc |-> "panel", config |-> config, rng |-> SeedRng(k)]
    /\ twin = NoTwin
    /\ call = NoCall

\* render_config_panel: failures end the rendering before the run button.
RenderConfigPanel ==
    /\ sim.pc = "panel"
    /\ LET validation_errors == validate_config(sim.config)
       IN /\ sim' = [sim EXCEPT !.pc = IF validation_errors # << >>
                                      THEN "rejected" ELSE "ready"]
          /\ call' = [op |-> "validate_config", errors |-> validation_errors]
    /\ UNCHANGED twin

\* The run button: SocialSimulation(config), then run_simulation.
StartSimulation ==
    /\ sim.pc = "ready"
    /\ sim' = initialize_society(sim.config, sim.rng)
    /\ UNCHANGED <<twin, call>>

PanelRunStep ==
    /\ sim.pc \notin {"panel", "ready", "rejected", "done"}
    /\ sim' = run_step(sim)
    /\ UNCHANGED <<twin, call>>

PanelNext == RenderConfigPanel \/ StartSimulation \/ PanelRunStep

SpecPanel == PanelInit /\ [][PanelNext]_vars

\* The rules of the validation, as the specification lists them.
ViolatedRules(config) ==
    LET d == config.class_distribution
    IN (IF d.low + d.middle + d.high \notin (Unit - 100)..(Unit + 100)
        THEN {"class_distribution"} ELSE {})
       \cup (IF config.total_population < 50 THEN {"total_population"} ELSE {})
       \cup (IF config.male_care_skill_mean + config.male_competition_skill_mean
                   > 18000 THEN {"male_skills"} ELSE {})
       \cup (IF config.female_care_skill_mean
                   + config.female_competition_skill_mean > 18000
             THEN {"female_skills"} ELSE {})

\* C21: validate_config lists exactly one failure per violated rule (class
\* ratios off 1 by more than 0.01, population below 50, a gender's skill
\* means summing to more than 1.8) and nothing for a configuration violating
\* none; with a non-empty list no simulation is constructed or run.
C21_ValidationGatesTheRun ==
    /\ call.op = "validate_config" =>
          /\ Len(call.errors) = Cardinality(ViolatedRules(sim.config))
          /\ {call.errors[j] : j \in 1..Len(call.errors)}
                 = ViolatedRules(sim.config)
          /\ call.errors # << >> => sim.pc = "rejected"
    /\ sim.pc \notin {"panel", "ready", "rejected"} =>
          /\ call.op = "validate_config" /\ call.errors = << >>
          /\ ViolatedRules(sim.config) = {}

\* A configuration violating three rules has been rejected with three
\* failures.
C21_Witness ==
    /\ sim.pc = "rejected"
    /\ Len(call.errors) = 3

\* C22: a run started with total_population = n has exactly n members in
\* every state; no step adds or removes a member or changes a member's
\* identifier or gender, and a member's class tier changes only in the
\* class-mobility check.
C22_MembersFixed ==
    [][/\ Len(sim.agents) = sim.config.total_population
       /\ Len(sim'.agents) = sim.config.total_population
       /\ sim'.config = sim.config
       /\ \A i \in 1..Len(sim.agents) :
             /\ sim'.agents[i].id = sim.agents[i].id
             /\ sim'.agents[i].gender = sim.agents[i].gender
             /\ sim'.agents[i].class_level # sim.agents[i].class_level
                    => sim.pc = "mobility"]_vars

\* A member has been reclassified, and the round after it has begun.
C22_Witness ==
    /\ sim.pc = "voting"
    /\ \E j \in 1..Len(sim.event_history) :
          sim.event_history[j].type = "class_mobility"

\* How far the run has come: thirteen positions per round, the loop head
\* after a round's last step being the thirteenth, and one more for the end.
Progress(s) ==
    LET position == CASE s.pc = "voting" -> 1 [] s.pc = "event" -> 2
                      [] s.pc = "bias" -> 3 [] s.pc = "tax" -> 4
                      [] s.pc = "update" -> 5 [] s.pc = "sanction" -> 6
                      [] s.pc = "stats" -> 7 [] s.pc = "snapshot" -> 8
                      [] s.pc = "learning" -> 9 [] s.pc = "conversion" -> 10
                      [] s.pc = "circle" -> 11 [] s.pc = "mobility" -> 12
                      [] s.pc = "loop" -> 13 [] s.pc = "done" -> 14
    IN s.current_round * 13 + position

MaxLearningCalls == 1

LearningRates == {0, 1000, 5000, Unit}

LearningInit ==
    /\ \E config \in {DefaultConfig, PatriarchalConfig, EgalitarianConfig},
          k \in 1..NumSeeds :
          sim = initialize_society([config EXCEPT !.total_population = 5],
                                   SeedRng(k))
    /\ twin = NoTwin
    /\ call = [op |-> "none", calls |-> 0]

CallLearnFromSuccessfulAgent ==
    \E i \in 1..2, j \in 1..Len(sim.agents), learning_rate \in LearningRates :
        /\ call.calls < MaxLearningCalls
        /\ sim' = [sim EXCEPT !.agents[i] =
                       learn_from_successful_agent(@, sim.agents[j], learning_rate)]
        /\ call' = [op |-> "learn_from_successful_agent", learner |-> i,
                    teacher |-> sim.agents[j], rate |-> learning_rate,
                    before |-> sim.agents[i], calls |-> call.calls + 1]
        /\ UNCHANGED twin

SpecLearning == LearningInit /\ [][CallLearnFromSuccessfulAgent]_vars

\* C24: every member's care_skill and competition_skill are in [0, 1] in
\* every state: as constructed they are in [0.1, 1.0], and after
\* learn_from_successful_agent with a rate in [0, 1] they are in [0, 1].
C24_SkillsInUnitInterval ==
    /\ \A i \in 1..Len(sim.agents) :
          /\ sim.agents[i].care_skill \in 0..Unit
          /\ sim.agents[i].competition_skill \in 0..Unit
    /\ call.op = "none" =>
          \A i \in 1..Len(sim.agents) :
              /\ sim.agents[i].care_skill \in 1000..Unit
              /\ sim.agents[i].competition_skill \in 1000..Unit

\* A member has learnt at rate 0.5 from a member of different skills.
C24_Witness ==
    /\ call.op = "learn_from_successful_agent"
    /\ call.rate = 5000
    /\ sim.agents[call.learner].care_skill # call.before.care_skill
    /\ sim.agents[call.learner].competition_skill # call.before.competition_skill

\* C25 (as stated): in the wealth/power update of round r the power loss
\* subtracted from a member is the sum over its effects that are
\* k = r - start_round < 3 rounds old of 0.08 * intensity * 0.5^k, so that an
\* effect added in round s counts with k = 1 in round s + 1 and an effect
\* three rounds old counts for nothing.
C25_SanctionLossInUpdate ==
    [][sim.pc = "update" =>
          \A i \in 1..Len(sim.agents) :
              sim'.agents[i].power =
                  Max(0, calculate_power(sim'.agents[i])
                         - ExpectedLoss(sim.agents[i].sanction_effects,
                                        sim.current_round, 8))]_vars

\* C26 (as stated): the attribution-bias step works with the mean of the
\* members' power, and the tax step with the mean of the members' wealth, as
\* they are when the step begins, each taken once for the whole step.
C26_AveragesTakenBeforeStep ==
    [][/\ sim.pc = "bias" =>
             sim'.agents =
                 apply_attribution_bias(
                     [sim EXCEPT !.average_power =
                         Mean(Field(sim.agents, LAMBDA a : a.power))]).agents
       /\ sim.pc = "tax" =>
             sim'.agents =
                 execute_tax_redistribution(
                     [sim EXCEPT !.average_wealth =
                         Mean(Field(sim.agents, LAMBDA a : a.wealth))]).agents]_vars

\* The aggregates as the latest snapshot recorded them.
RecordedAggregates(s) ==
    LET snapshot == s.rounds[Len(s.rounds)]
    IN [social_equality |-> snapshot.social_equality,
        average_wealth |-> snapshot.average_wealth,
        average_power |-> snapshot.average_power,
        average_ideology |-> snapshot.average_ideology,
        gender_stats |-> snapshot.gender_stats,
        ideology_stats |-> snapshot.ideology_stats,
        class_stats |-> snapshot.class_stats]

\* C27: the stored aggregates change only in the statistics refresh; during
\* the first six steps of round r they are those recorded at the end of
\* round r - 1, and the event of round r takes its type and, for a social
\* event, its success threshold from that equality index.
C27_AggregatesChangeOnlyInRefresh ==
    [][/\ Aggregates(sim') # Aggregates(sim) => sim.pc = "stats"
       /\ sim.pc \in {"voting", "event", "bias", "tax", "update", "sanction"} =>
             /\ Len(sim.rounds) = sim.current_round
             /\ sim.rounds[Len(sim.rounds)].current_round = sim.current_round - 1
             /\ Aggregates(sim) = RecordedAggregates(sim)
       /\ sim.pc = "event" =>
             LET equality ==
                     EqualityValue(sim.rounds[Len(sim.rounds)].social_equality)
                 event == sim'.event_history[Len(sim'.event_history)]
             IN /\ event.round = sim.current_round
                /\ event.type = "social"
                       <=> Uniform(sim.rng.py, 1) < 4000 + Mul(2000, equality)
                /\ event.type = "social" =>
                       event.threshold = (Len(sim.agents) * (Unit + equality)) \div 2]_vars

\* The sixth step of a round is done and the stored average wealth is no
\* longer the members' mean wealth.
C27_Witness ==
    /\ sim.pc = "stats"
    /\ sim.current_round >= 2
    /\ sim.average_wealth # Mean(Field(sim.agents, LAMBDA a : a.wealth))
    /\ sim.event_history[Len(sim.event_history)].type = "social"

\* The log's entries of type social or economic stamped with round r.
RoundEvents(s, r) ==
    {j \in 1..Len(s.event_history) :
        /\ s.event_history[j].type \in {"social", "economic"}
        /\ s.event_history[j].round = r}

\* C28: the log holds exactly one event of type social or economic for every
\* round whose event step is done, none for any other round number, and the
\* event step is where it is appended.
C28_OneEventPerRound ==
    /\ [](/\ \A r \in 1..sim.current_round :
                Cardinality(RoundEvents(sim, r)) =
                    IF r = sim.current_round /\ sim.pc \in {"voting", "event"}
                    THEN 0 ELSE 1
          /\ \A j \in 1..Len(sim.event_history) :
                sim.event_history[j].type \in {"social", "economic"} =>
                    sim.event_history[j].round \in 1..sim.current_round)
    /\ [][sim.pc = "event" =>
             /\ Len(sim'.event_history) = Len(sim.event_history) + 1
             /\ Len(sim'.event_history) \in RoundEvents(sim', sim.current_round)]_vars

\* A run has ended with social and economic events in its log.
C28_Witness ==
    /\ sim.pc = "done"
    /\ \E r1, r2 \in 1..sim.current_round :
          /\ sim.event_history[CHOOSE j \in RoundEvents(sim, r1) : TRUE].type = "social"
          /\ sim.event_history[CHOOSE j \in RoundEvents(sim, r2) : TRUE].type = "economic"

\* C29 (as stated): in an ideology-conversion pass a member whose frustration
\* condition holds (ideology P or F and personal_benefit < -0.2) ends the
\* pass with its ideology unchanged or with U, never with the other of P and
\* F.
C29_FrustrationRuleWins ==
    [][sim.pc = "conversion" =>
          \A i \in 1..Len(sim.agents) :
              LET a == sim.agents[i]
                  personal_benefit == (a.wealth - 5000) + (a.power - 5000)
              IN (a.ideology \in {"P", "F"} /\ personal_benefit < 0 - 2000) =>
                     sim'.agents[i].ideology \in {a.ideology, "U"}]_vars

\* The lever's value scaled by the vote, before the boundary handling.
ScaledValue(s, policy_name) ==
    LET current_value == s.policy_levers[policy_name]
        adjustment == Min(2000, UniformIn(s.rng.np, 1, 500, 2000))
        dir == MajorityDirection(s, policy_name)
    IN IF dir > 0 THEN Mul(current_value, Unit + adjustment)
       ELSE IF dir < 0 THEN Mul(current_value, Unit - adjustment)
       ELSE current_value

\* C30 (as stated): when the circle votes on a lever and the scaled value is
\* above the lever's max, vote_on_policy returns exactly max; when it is
\* below the lever's min, exactly min.
C30_ReturnsViolatedBound ==
    [][(call'.op = "vote_on_policy" /\ ~call'.raised
            /\ sim.core_decision_circle # << >>) =>
          LET scaled == ScaledValue(sim, call'.policy)
              min_val == policy_bounds(call'.policy)[1]
              max_val == policy_bounds(call'.policy)[2]
          IN /\ scaled > max_val => call'.value = max_val
             /\ scaled < min_val => call'.value = min_val]_vars

(***************************************************************************)
(* The class-mobility check on a society of given tiers and wealths, and    *)
(* Agent.check_class_mobility called with given class averages.             *)
(***************************************************************************)
MaxMobilityPopulation == 2

MobilityWealths == {1000, 4000, 9000}

MobilityAverages == {0, 2000, 5000}

ClassLevels == {"low", "middle", "high"}

\* A member as Agent(...) builds it in the given tier, its wealth then set.
TierAgent(id, class_level, wealth) ==
    [FixtureAgent(id, wealth) EXCEPT !.class_level = class_level]

\* The society as it stands when the periodic operations of round 10 reach
\* the mobility check: statistics refreshed for the members' tiers.
MobilityInit ==
    /\ \E n \in 1..MaxMobilityPopulation :
          \E tiers \in [1..n -> ClassLevels], wealths \in [1..n -> MobilityWealths] :
              sim = [society_init([DefaultConfig EXCEPT !.total_population = n],
                                  [i \in 1..n |-> TierAgent(i, tiers[i], wealths[i])],
                                  SeedRng(1))
                        EXCEPT !.current_round = PeriodicInterval,
                               !.pc = "mobility"]
    /\ twin = NoTwin
    /\ call = NoCall

CallCheckClassMobility ==
    \E i \in 1..Len(sim.agents), middle \in MobilityAverages,
       high \in MobilityAverages :
        LET class_averages == [low |-> 2000, middle |-> middle, high |-> high]
        IN /\ call.op = "none"
           /\ call' = [op |-> "check_class_mobility", member |-> sim.agents[i],
                       class_averages |-> class_averages,
                       ret |-> check_class_mobility(sim.agents[i], class_averages)]
           /\ UNCHANGED <<sim, twin>>

MobilityStep ==
    /\ call.op = "none"
    /\ sim.pc = "mobility"
    /\ sim' = simulation_check_class_mobility(sim)
    /\ call' = [op |-> "_check_class_mobility", before |-> sim.agents,
                class_stats |-> sim.class_stats]
    /\ UNCHANGED twin

MobilityNext == CallCheckClassMobility \/ MobilityStep

SpecMobility == MobilityInit /\ [][MobilityNext]_vars

\* The tier the mobility rules give a member of tier c and wealth w for
\* class averages avg: wealth compared with 1.5 and 0.6 times an average.
RuledTier(c, w, avg) ==
    CASE c = "low" -> IF 10 * w > 15 * avg.middle THEN "middle" ELSE "low"
      [] c = "middle" -> IF 10 * w > 15 * avg.high THEN "high"
                         ELSE IF 10 * w < 6 * avg.middle THEN "low"
                         ELSE "middle"
      [] c = "high" -> IF 10 * w < 6 * avg.high THEN "middle" ELSE "high"

TierRank(c) == CASE c = "low" -> 1 [] c = "middle" -> 2 [] c = "high" -> 3

ImitationPopulations == {4, 10}

\* Members 1 and 2 lead by power and differ in skills; the others follow
\* FixtureAgent, their genders and tiers covering all six combinations.
ImitationMembers(n, g1, c1, g2, c2) ==
    [i \in 1..n |->
        IF i = 1
        THEN [VotingMember(1, "U", 7000, 3000, 9000)
                 EXCEPT !.gender = g1, !.class_level = c1]
        ELSE IF i = 2
        THEN [VotingMember(2, "U", 3000, 7000, 9000)
                 EXCEPT !.gender = g2, !.class_level = c2]
        ELSE LET a == FixtureAgent(i, 1000)
             IN [a EXCEPT !.power = calculate_power(a)]]

ImitationInit ==
    /\ \E n \in ImitationPopulations, g1 \in {"male", "female"},
          g2 \in {"male", "female"}, c1 \in ClassLevels, c2 \in ClassLevels,
          k \in 1..NumSeeds :
          sim = [society_init([DefaultConfig EXCEPT !.total_population = n],
                              ImitationMembers(n, g1, c1, g2, c2), SeedRng(k))
                    EXCEPT !.current_round = PeriodicInterval,
                           !.pc = "learning"]
    /\ twin = NoTwin
    /\ call = NoCall

LearningStep ==
    /\ sim.pc = "learning"
    /\ sim' = execute_learning_imitation(sim)
    /\ call' = [op |-> "_execute_learning_imitation"]
    /\ UNCHANGED twin

SpecImitation == ImitationInit /\ [][LearningStep]_vars

\* The top 20% by power: the members with fewer than int(0.2 * n) members
\* ahead of them, a member of equal power being ahead if earlier in the list.
Cohort(s) ==
    LET n == Len(s.agents)
        ahead(i) == {j \in 1..n :
                        \/ s.agents[j].power > s.agents[i].power
                        \/ s.agents[j].power = s.agents[i].power /\ j < i}
    IN {i \in 1..n : Cardinality(ahead(i)) < (n * 2) \div 10}

\* The cohort members a learner may be given: the first non-empty group.
LearningTargets(s, i) ==
    LET a == s.agents[i]
        same_gender == {t \in Cohort(s) : s.agents[t].gender = a.gender}
        same_class == {t \in Cohort(s) : s.agents[t].class_level = a.class_level}
    IN IF same_gender \cap same_class # {} THEN same_gender \cap same_class
       ELSE IF same_gender # {} THEN same_gender
       ELSE IF same_class # {} THEN same_class
       ELSE Cohort(s)

MaxBiasRounds == 11
BiasValues == {0, 5000, Unit}

BiasInit ==
    /\ \E preset \in {DefaultConfig, PatriarchalConfig},
          n \in {5, MaxPopulation}, k \in 1..NumSeeds,
          b1 \in BiasValues, b2 \in BiasValues :
          /\ b1 < b2
          /\ LET config == [preset EXCEPT !.total_population = n,
                                          !.max_rounds = MaxBiasRounds]
             IN /\ sim = initialize_society(
                            [config EXCEPT !.attribution_bias = b1], SeedRng(k))
                /\ twin = initialize_society(
                             [config EXCEPT !.attribution_bias = b2], SeedRng(k))
    /\ call = NoCall

SpecBias == BiasInit /\ [][PairStep]_vars

\* What a snapshot records of a member apart from its sanction count.
MemberOutcome(d) ==
    [wealth |-> d.wealth, care_skill |-> d.care_skill,
     competition_skill |-> d.competition_skill, ideology |-> d.ideology,
     class_level |-> d.class_level, power |-> d.power]

C34_IdeologyStaysValid ==
    /\ \A i \in 1..Len(sim.agents) :
          /\ sim.agents[i].ideology \in {"P", "F", "U"}
          /\ sim.agents[i].ideology_value =
                (CASE sim.agents[i].ideology = "P" -> 1
                   [] sim.agents[i].ideology = "F" -> 0 - 1
                   [] sim.agents[i].ideology = "U" -> 0)
    /\ (call.op = "change_ideology" /\ call.raised) =>
          /\ sim.agents[1].ideology = call.before.ideology
          /\ sim.agents[1].ideology_value = call.before.ideology_value
          /\ sim.agents[1].last_ideology_change = call.before.last_ideology_change
          /\ sim.agents[1].ideology_history = call.before.ideology_history

\* C35: at every recorded snapshot each member has at most 3 active sanction
\* effects, each with current_round - start_round < 3, also for a member
\* sanctioned in every round.
C35_AtMostThreeEffects ==
    /\ \A k \in 1..Len(sim.rounds) :
          \A i \in 1..Len(sim.rounds[k].agents) :
              sim.rounds[k].agents[i].sanction_effects_count <= 3
    /\ (sim.pc \in {"snapshot", "learning", "conversion", "circle",
                    "mobility", "done"}
        \/ (sim.pc = "loop" /\ Len(sim.rounds) > 1)) =>
          \A i \in 1..Len(sim.agents) :
              /\ Len(sim.agents[i].sanction_effects) <= 3
              /\ \A j \in 1..Len(sim.agents[i].sanction_effects) :
                    sim.current_round
                        - sim.agents[i].sanction_effects[j].start_round < 3

\* A snapshot is being recorded of a member sanctioned in each of the last
\* four rounds.
C35_Witness ==
    /\ sim.pc = "snapshot"
    /\ sim.current_round >= 4
    /\ \E i \in 1..Len(sim.agents) :
          /\ Len(sim.agents[i].sanction_effects) = 3
          /\ \A k \in 2..4 :
                sim.rounds[sim.current_round - k + 2].agents[i]
                    .sanction_effects_count = Min(3, sim.current_round - k + 1)

\* The members of the list that are in the tier.
TierMembers(agents, tier) ==
    {i \in 1..Len(agents) : agents[i].class_level = tier}

\* C36: at a mobility check a tier without members has average wealth 0,
\* and every member of positive wealth in the tier directly below it is
\* promoted into it: middle members into an empty high tier, low members
\* into an empty middle tier.
C36_EmptyTierPromotes ==
    [][(sim.pc = "mobility" /\ sim'.pc # "mobility") =>
          \A pair \in {<<"middle", "high">>, <<"low", "middle">>} :
              TierMembers(sim.agents, pair[2]) = {} =>
                  /\ sim.class_stats[pair[2]].avg_wealth = 0
                  /\ \A i \in TierMembers(sim.agents, pair[1]) :
                        sim.agents[i].wealth > 0 =>
                            sim'.agents[i].class_level = pair[2]]_vars

\* A check has moved two low members into the middle tier, which was empty.
C36_Witness ==
    /\ call.op = "_check_class_mobility"
    /\ TierMembers(call.before, "middle") = {}
    /\ Cardinality(TierMembers(call.before, "low")) = 2
    /\ \A i \in TierMembers(call.before, "low") :
          sim.agents[i].class_level = "middle"

\* C37: the snapshot history is append-only: a step leaves every snapshot
\* already appended as it was (member records, statistics, lever values,
\* event-log entries, elite records); the event log only grows, and the round
\* stamps of its entries never decrease along the log.
C37_HistoryAppendOnly ==
    [][/\ Len(sim'.rounds) >= Len(sim.rounds)
       /\ SubSeq(sim'.rounds, 1, Len(sim.rounds)) = sim.rounds
       /\ Len(sim'.event_history) >= Len(sim.event_history)
       /\ SubSeq(sim'.event_history, 1, Len(sim.event_history))
              = sim.event_history
       /\ \A i, j \in 1..Len(sim'.event_history) :
             i < j => sim'.event_history[i].round <= sim'.event_history[j].round
      ]_vars

\* The periodic operations have logged a class_mobility event after the
\* round's snapshot was appended, and the snapshot does not hold it; the
\* lever values recorded in the first snapshot differ from the present ones.
C37_Witness ==
    /\ sim.pc = "loop"
    /\ Len(sim.rounds) > PeriodicInterval
    /\ sim.event_history # << >>
    /\ sim.event_history[Len(sim.event_history)].type = "class_mobility"
    /\ Len(sim.rounds[Len(sim.rounds)].event_history) < Len(sim.event_history)
    /\ sim.rounds[1].policy_levers # sim.policy_levers

=============================================================================
